---- MODULE Spec2Model ----
(***************************************************************************)
(* The env-injector mutating admission webhook of vllm-profiler             *)
(* (src/webhook.py): selector, annotation extraction, the two JSON Patch    *)
(* builders and the /mutate handler, together with the API server that      *)
(* applies the returned patch (RFC 6902) and may re-admit the patched pod.  *)
(*                                                                          *)
(* JSON documents are tagged values [t, v]:                                 *)
(*   t = "absent"  the key is not in its mapping                            *)
(*   t = "null"    None                                                     *)
(*   t = "num"     a non-zero number (truthy, no .get, no len, no iter)     *)
(*   t = "bool"    v \in BOOLEAN                                            *)
(*   t = "str"     v the string                                             *)
(*   t = "list"    v the sequence of items                                  *)
(*   t = "map"     v a function from the keys of its schema to values,      *)
(*                 a missing key being mapped to JAbsent                    *)
(* A string is a sequence of atoms: an atom is one of the characters        *)
(* "," "=" " " or a run of other characters, so that split and strip act    *)
(* on it as they act on the characters. A JSON-Pointer path is the          *)
(* sequence of its reference tokens.                                        *)
(*                                                                          *)
(* cfg, pc, req, resp, patched, round are one admission seen from the API   *)
(* server; workers holds the handler's locals per serving worker when       *)
(* requests are handled concurrently; wrapper is the state of the profiler  *)
(* wrapper of src/sitecustomize.py; parsed holds one configuration string   *)
(* and what the two list parsers return and log for it.                     *)
(***************************************************************************)
EXTENDS Integers, Sequences, FiniteSets, TLC

VARIABLES cfg, pc, req, resp, patched, round, workers, wrapper, parsed

vars == <<cfg, pc, req, resp, patched, round, workers, wrapper, parsed>>

(***************************************************************************)
(* Bounds of the model.                                                     *)
(***************************************************************************)
\* a pod holds at most MaxItems list items (containers + env entries +
\* volumeMounts + volumes) in total
MaxItems == 3
\* the API server admits the same pod at most MaxAdmissions times
MaxAdmissions == 2
\* the number of workers serving /mutate concurrently
NumWorkers == 2
\* the profiler is configured with at most MaxRanges ranges, whose call
\* numbers are at most MaxCallNo
MaxRanges == 2
MaxCallNo == 3
\* a configuration string given to the parsers has at most MaxEntries
\* comma-separated entries
MaxEntries == 3

(***************************************************************************)
(* JSON values and the Python operations the handler uses on them.          *)
(***************************************************************************)
JAbsent == [t |-> "absent", v |-> <<>>]
JNull == [t |-> "null", v |-> <<>>]
JNum == [t |-> "num", v |-> <<>>]
JTrue == [t |-> "bool", v |-> TRUE]
Str(s) == [t |-> "str", v |-> s]
\* a string of one atom
A(x) == Str(<<x>>)
List(s) == [t |-> "list", v |-> s]
Map(f) == [t |-> "map", v |-> f]

\* {} : a mapping without keys
EmptyMap == Map(<<>>)

IsMap(j) == j.t = "map"
IsList(j) == j.t = "list"

\* the keys a mapping holds
Keys(m) == {k \in DOMAIN m.v : m.v[k].t # "absent"}

\* dict.get(k, default) on a mapping
Get(d, k, default) ==
    IF k \in DOMAIN d.v /\ d.v[k].t # "absent" THEN d.v[k] ELSE default

\* Python truthiness, as used by "x or {}" and "if x:"
Truthy(j) ==
    CASE j.t = "null" -> FALSE
      [] j.t = "absent" -> FALSE
      [] j.t = "num" -> TRUE
      [] j.t = "bool" -> j.v
      [] j.t = "str" -> j.v # <<>>
      [] j.t = "list" -> j.v # <<>>
      [] j.t = "map" -> Keys(j) # {}
      [] OTHER -> FALSE

\* len(x) is defined on lists, mappings and strings only
HasLen(j) == j.t \in {"list", "map", "str"}

\* what "for item in x" yields: the items of a list, the keys (strings) of a
\* mapping, the characters of a string
Items(j) ==
    IF j.t = "list" THEN j.v
    ELSE IF j.t = "map" THEN [i \in 1..Cardinality(Keys(j)) |-> A("key")]
    ELSE IF j.t = "str" THEN [i \in 1..Len(j.v) |-> A("char")]
    ELSE <<>>

\* f"{i}" for an index, and the API server's reading of it
Digits == <<"0", "1", "2", "3", "4", "5", "6", "7", "8", "9">>
IndexToken(i) == Digits[i + 1]
IsIndexToken(s) == \E i \in 1..Len(Digits) : Digits[i] = s
TokenIndex(s) == (CHOOSE i \in 1..Len(Digits) : Digits[i] = s) - 1

(***************************************************************************)
(* Static configuration (src/webhook.py:12-38).                             *)
(***************************************************************************)
FILES_VOLUME_NAME == <<"env-injector-files">>
FILES_CONFIGMAP_NAME == <<"env-injector-files">>
FILE_KEYS ==
    << [key |-> <<"sitecustomize.py">>,
        mountPath |-> <<"/home/vllm/profiler/sitecustomize.py">>],
       [key |-> <<"profiler_config.yaml">>,
        mountPath |-> <<"/home/vllm/profiler/profiler_config.yaml">>] >>
PROFILER_ANNOTATION_PREFIX == "vllm.profiler/"

\* annotation_to_env, in the insertion order a Python dict iterates in
AnnotationToEnv ==
    << [suffix |-> "ranges", env |-> <<"VLLM_PROFILER_RANGES">>],
       [suffix |-> "activities", env |-> <<"VLLM_PROFILER_ACTIVITIES">>],
       [suffix |-> "record-shapes", env |-> <<"VLLM_PROFILER_RECORD_SHAPES">>],
       [suffix |-> "with-stack", env |-> <<"VLLM_PROFILER_WITH_STACK">>],
       [suffix |-> "memory", env |-> <<"VLLM_PROFILER_MEMORY">>],
       [suffix |-> "output", env |-> <<"VLLM_PROFILER_OUTPUT">>],
       [suffix |-> "export-trace", env |-> <<"VLLM_PROFILER_EXPORT_TRACE">>],
       [suffix |-> "debug", env |-> <<"VLLM_PROFILER_DEBUG">>] >>

(***************************************************************************)
(* str.split, str.strip, "in" on strings of atoms.                          *)
(***************************************************************************)
\* the index of the first occurrence of atom c in s, 0 if there is none
FirstIndexOf(s, c) ==
    IF \E i \in 1..Len(s) : s[i] = c
    THEN CHOOSE i \in 1..Len(s) : s[i] = c /\ \A j \in 1..(i - 1) : s[j] # c
    ELSE 0

\* s.split(c): always at least one piece
RECURSIVE Split(_, _)
Split(s, c) ==
    LET i == FirstIndexOf(s, c) IN
    IF i = 0 THEN <<s>>
    ELSE <<SubSeq(s, 1, i - 1)>> \o Split(SubSeq(s, i + 1, Len(s)), c)

\* s.strip(): leading and trailing blanks removed
RECURSIVE Strip(_)
Strip(s) ==
    IF s = <<>> THEN s
    ELSE IF Head(s) = " " THEN Strip(Tail(s))
    ELSE IF s[Len(s)] = " " THEN Strip(SubSeq(s, 1, Len(s) - 1))
    ELSE s

(***************************************************************************)
(* Selector.                                                                *)
(***************************************************************************)
\* one entry of TARGET_LABELS: <<>> when it is skipped, else <<(key, value)>>
ParsePair(raw) ==
    LET pair == Strip(raw)
        i == FirstIndexOf(pair, "=")
    IN IF i > 0
       THEN << [key |-> Strip(SubSeq(pair, 1, i - 1)),
                value |-> Strip(SubSeq(pair, i + 1, Len(pair)))] >>
       ELSE <<>>

RECURSIVE ParsePairs(_)
ParsePairs(pieces) ==
    IF pieces = <<>> THEN <<>>
    ELSE ParsePair(Head(pieces)) \o ParsePairs(Tail(pieces))

parse_target_labels(labels_str) ==
    IF labels_str = <<>> THEN <<>> ELSE ParsePairs(Split(labels_str, ","))

\* mutant: AND logic, every target label must match
matches_all_labels(pod_labels, target_labels) ==
    \A i \in 1..Len(target_labels) :
        Get(pod_labels, target_labels[i].key, JNull) = Str(target_labels[i].value)

matches_any_label(pod_labels, target_labels) ==
    \E i \in 1..Len(target_labels) :
        Get(pod_labels, target_labels[i].key, JNull) = Str(target_labels[i].value)

(***************************************************************************)
(* AnnotationConfigExtractor.                                               *)
(***************************************************************************)
\* f"{PROFILER_ANNOTATION_PREFIX}{annotation_suffix}"
AnnotationKey(suffix) == <<PROFILER_ANNOTATION_PREFIX, suffix>>

\* {"name": n, "value": v}
EnvVar(n, v) == Map([name |-> Str(n), value |-> v, valueFrom |-> JAbsent])

\* "key in annotations" raises TypeError on a number or a boolean
ExtractRaises(annotations) == annotations.t \in {"num", "bool"}

RECURSIVE ExtractFrom(_, _)
ExtractFrom(annotations, table) ==
    IF table = <<>> THEN <<>>
    ELSE LET e == Head(table)
             k == AnnotationKey(e.suffix)
         IN (IF IsMap(annotations) /\ k \in Keys(annotations)
             THEN <<EnvVar(e.env, annotations.v[k])>>
             ELSE <<>>) \o ExtractFrom(annotations, Tail(table))

\* mutant: the variables come out in the reverse of the table order
extract_in_reverse_order(annotations) ==
    ExtractFrom(annotations,
                [i \in 1..Len(AnnotationToEnv) |->
                    AnnotationToEnv[Len(AnnotationToEnv) + 1 - i]])

extract_profiler_env_from_annotations(annotations) ==
    ExtractFrom(annotations, AnnotationToEnv)

(***************************************************************************)
(* Patch builders. A patch operation is [op, path, value]; the builders     *)
(* return the operation list; the ...Raises predicates say when the Python  *)
(* code raises instead (AttributeError / TypeError).                        *)
(***************************************************************************)
\* x or {}
OrEmpty(j) == IF Truthy(j) THEN j ELSE EmptyMap

\* a scan "for item in items: if item.get("name") == name: stop" raises when
\* it meets an item without .get before it stops
ScanRaises(items, name) ==
    \E i \in 1..Len(items) :
        /\ ~IsMap(items[i])
        /\ \A j \in 1..(i - 1) : IsMap(items[j]) /\ Get(items[j], "name", JNull) # name

\* the first position (from 1) of an item named name, 0 if there is none
FindByName(items, name) ==
    IF \E i \in 1..Len(items) : Get(items[i], "name", JNull) = name
    THEN CHOOSE i \in 1..Len(items) :
            /\ Get(items[i], "name", JNull) = name
            /\ \A j \in 1..(i - 1) : Get(items[j], "name", JNull) # name
    ELSE 0

RECURSIVE Flatten(_)
Flatten(ss) == IF ss = <<>> THEN <<>> ELSE Head(ss) \o Flatten(Tail(ss))

EnvPath(container_index) == <<"spec", "containers", IndexToken(container_index), "env">>

\* mutant: the replace path counts the entries from 1
EnvReplaceOpsFromOne(container_index, env_items, env_vars) ==
    Flatten([k \in 1..Len(env_vars) |->
        LET existing_index == FindByName(env_items, env_vars[k].v.name) IN
        IF existing_index >= 1
        THEN << [op |-> "replace",
                 path |-> EnvPath(container_index) \o <<IndexToken(existing_index), "value">>,
                 value |-> env_vars[k].v.value] >>
        ELSE <<>>])

\* lines 137-158: the replace operations of one container, in injection order
EnvReplaceOps(container_index, env_items, env_vars) ==
    Flatten([k \in 1..Len(env_vars) |->
        LET existing_index == FindByName(env_items, env_vars[k].v.name) - 1 IN
        IF existing_index >= 0
        THEN << [op |-> "replace",
                 path |-> EnvPath(container_index) \o <<IndexToken(existing_index), "value">>,
                 value |-> env_vars[k].v.value] >>
        ELSE <<>>])

\* lines 156-158: env_to_add of one container
EnvToAdd(env_items, env_vars) ==
    Flatten([k \in 1..Len(env_vars) |->
        IF FindByName(env_items, env_vars[k].v.name) = 0
        THEN <<EnvVar(env_vars[k].v.name.v, env_vars[k].v.value)>>
        ELSE <<>>])

\* mutant: the queued variables are always appended one by one
EnvAddOpsAppendAll(container_index, env_list, env_to_add) ==
    [k \in 1..Len(env_to_add) |->
        [op |-> "add", path |-> EnvPath(container_index) \o <<"-">>,
         value |-> env_to_add[k]]]

\* lines 160-178: the add operations of one container
EnvAddOps(container_index, env_list, env_to_add) ==
    IF env_to_add = <<>> THEN <<>>
    ELSE IF Truthy(env_list)
    THEN [k \in 1..Len(env_to_add) |->
            [op |-> "add", path |-> EnvPath(container_index) \o <<"-">>,
             value |-> env_to_add[k]]]
    ELSE << [op |-> "add", path |-> EnvPath(container_index),
             value |-> List(env_to_add)] >>

\* lines 129-178: one iteration of the loop over the containers
ContainerEnvOps(container_index, container, env_vars) ==
    LET env_list == Get(container, "env", List(<<>>))
        env_items == Items(env_list)
    IN EnvReplaceOps(container_index, env_items, env_vars)
       \o EnvAddOps(container_index, env_list, EnvToAdd(env_items, env_vars))

ContainerEnvRaises(container, env_vars) ==
    \/ ~IsMap(container)
    \/ LET env_list == Get(container, "env", List(<<>>)) IN
       \/ ~HasLen(env_list)
       \/ \E k \in 1..Len(env_vars) : ScanRaises(Items(env_list), env_vars[k].v.name)

EnvPatchRaises(pod, env_vars) ==
    LET spec == Get(pod, "spec", EmptyMap) IN
    \/ ~IsMap(spec)
    \/ LET containers == Get(spec, "containers", List(<<>>)) IN
       \/ ~HasLen(containers)
       \/ \E i \in 1..Len(Items(containers)) :
             ContainerEnvRaises(Items(containers)[i], env_vars)

build_env_patch_for_pod(pod, env_vars) ==
    LET containers == Items(Get(Get(pod, "spec", EmptyMap), "containers", List(<<>>)))
    IN Flatten([i \in 1..Len(containers) |->
                   ContainerEnvOps(i - 1, containers[i], env_vars)])

FilesVolume ==
    Map([name |-> Str(FILES_VOLUME_NAME),
         configMap |-> Map([name |-> Str(FILES_CONFIGMAP_NAME)])])

\* mutant: the volume is always appended to /spec/volumes
VolumeOpsAppend(volumes) ==
    IF FindByName(Items(volumes), Str(FILES_VOLUME_NAME)) > 0 THEN <<>>
    ELSE << [op |-> "add", path |-> <<"spec", "volumes", "-">>, value |-> FilesVolume] >>

\* mutant: the volume is added without looking for it in spec.volumes
VolumeOpsUnconditional(volumes) ==
    IF Truthy(volumes)
    THEN << [op |-> "add", path |-> <<"spec", "volumes", "-">>, value |-> FilesVolume] >>
    ELSE << [op |-> "add", path |-> <<"spec", "volumes">>, value |-> List(<<FilesVolume>>)] >>

\* lines 189-216: the volume step
VolumeOps(volumes) ==
    IF FindByName(Items(volumes), Str(FILES_VOLUME_NAME)) > 0 THEN <<>>
    ELSE IF Truthy(volumes)
    THEN << [op |-> "add", path |-> <<"spec", "volumes", "-">>, value |-> FilesVolume] >>
    ELSE << [op |-> "add", path |-> <<"spec", "volumes">>, value |-> List(<<FilesVolume>>)] >>

FileMount(f) ==
    Map([name |-> Str(FILES_VOLUME_NAME), mountPath |-> Str(f.mountPath),
         subPath |-> Str(f.key), readOnly |-> JTrue])

MountsPath(idx) == <<"spec", "containers", IndexToken(idx), "volumeMounts">>

\* mutant: only mounts of the auxiliary volume count as existing
MountAddListOwnVolume(mount_items) ==
    LET existing_mount_paths ==
            {Get(mount_items[i], "mountPath", JNull) :
                i \in {j \in 1..Len(mount_items) :
                           Get(mount_items[j], "name", JNull) = Str(FILES_VOLUME_NAME)}}
    IN Flatten([k \in 1..Len(FILE_KEYS) |->
           IF Str(FILE_KEYS[k].mountPath) \in existing_mount_paths
           THEN <<>> ELSE <<FileMount(FILE_KEYS[k])>>])

\* lines 221-232: add_list of one container
MountAddList(mount_items) ==
    LET existing_mount_paths ==
            {Get(mount_items[i], "mountPath", JNull) : i \in 1..Len(mount_items)}
    IN Flatten([k \in 1..Len(FILE_KEYS) |->
           IF Str(FILE_KEYS[k].mountPath) \in existing_mount_paths
           THEN <<>> ELSE <<FileMount(FILE_KEYS[k])>>])

\* lines 219-248: one iteration of the loop over the containers
ContainerMountOps(idx, c) ==
    LET mounts == Get(c, "volumeMounts", List(<<>>))
        add_list == MountAddList(Items(mounts))
    IN IF add_list = <<>> THEN <<>>
       ELSE IF Truthy(mounts)
       THEN [k \in 1..Len(add_list) |->
               [op |-> "add", path |-> MountsPath(idx) \o <<"-">>, value |-> add_list[k]]]
       ELSE << [op |-> "add", path |-> MountsPath(idx), value |-> List(add_list)] >>

ContainerMountRaises(c) ==
    \/ ~IsMap(c)
    \/ LET mounts == Get(c, "volumeMounts", List(<<>>)) IN
       \/ ~HasLen(mounts)
       \/ \E i \in 1..Len(Items(mounts)) : ~IsMap(Items(mounts)[i])

FilesPatchRaises(pod) ==
    LET spec == OrEmpty(Get(pod, "spec", EmptyMap)) IN
    \/ ~IsMap(spec)
    \/ LET volumes == Get(spec, "volumes", List(<<>>))
           containers == Get(spec, "containers", List(<<>>))
       IN \/ ~HasLen(volumes)
          \/ ScanRaises(Items(volumes), Str(FILES_VOLUME_NAME))
          \/ ~HasLen(containers)
          \/ \E i \in 1..Len(Items(containers)) :
                ContainerMountRaises(Items(containers)[i])

build_files_volume_patch_for_pod(pod) ==
    LET spec == OrEmpty(Get(pod, "spec", EmptyMap))
        volumes == Get(spec, "volumes", List(<<>>))
        containers == Items(Get(spec, "containers", List(<<>>)))
    IN VolumeOps(volumes)
       \o Flatten([idx \in 1..Len(containers) |-> ContainerMountOps(idx - 1, containers[idx])])

(***************************************************************************)
(* AdmissionDecisionEngine: the /mutate handler.                            *)
(***************************************************************************)
\* json.dumps then base64: the string the "patch" field carries
JsonDumps(ops) == [t |-> "json", v |-> ops]
B64Encode(s) == [t |-> "b64", v |-> s]

\* lines 271-279: allow without changes
DefaultResponse(uid) ==
    [uid |-> uid, allowed |-> JTrue, patchType |-> JAbsent, patch |-> JAbsent]

\* lines 351-359
PatchResponse(uid, patch_ops) ==
    IF patch_ops # <<>>
    THEN [uid |-> uid, allowed |-> JTrue, patchType |-> A("JSONPatch"),
          patch |-> B64Encode(JsonDumps(patch_ops))]
    ELSE DefaultResponse(uid)

\* line 261: request.get_json(force=True, silent=True) gives the parsed body,
\* and None when the bytes posted are not JSON
Unparseable == [t |-> "bytes", v |-> <<>>]
get_json(body) == IF body.t = "bytes" THEN JNull ELSE body

\* what the HTTP layer answers: 200 with jsonify(response_body), or 500 when
\* the view function raised; log names the last debug line of the handler
Answer(response, log) ==
    [status |-> 200,
     body |-> Map([apiVersion |-> A("admission.k8s.io/v1"),
                   kind |-> A("AdmissionReview"),
                   response |-> Map(response)]),
     log |-> log]
Raised == [status |-> 500, body |-> JAbsent, log |-> "exception"]

\* mutant: the comparison with the request's namespace is missing
NamespaceCheckUnset(c, namespace) ==
    IF c.TARGET_NAMESPACE = <<>> THEN "namespace_not_configured" ELSE "ok"

\* lines 294-300: "ok", or the debug line of the early return
NamespaceCheck(c, namespace) ==
    IF c.TARGET_NAMESPACE = <<>> THEN "namespace_not_configured"
    ELSE IF namespace # Str(c.TARGET_NAMESPACE) THEN "namespace_mismatch"
    ELSE "ok"

\* mutant: TARGET_LABELS without a valid pair falls back to the legacy pair
LabelCheckFallback(c, labels) ==
    LET target_label_pairs == parse_target_labels(c.TARGET_LABELS) IN
    IF target_label_pairs # <<>>
    THEN IF ~IsMap(labels) THEN "raise"
         ELSE IF matches_any_label(labels, target_label_pairs) THEN "match"
         ELSE "none_of_target_labels"
    ELSE IF c.TARGET_LABEL_KEY # <<>> /\ c.TARGET_LABEL_VALUE # <<>>
    THEN IF ~IsMap(labels) THEN "raise"
         ELSE IF Get(labels, c.TARGET_LABEL_KEY, JNull) # Str(c.TARGET_LABEL_VALUE)
         THEN "label_mismatch"
         ELSE "match"
    ELSE "no_selector"

\* lines 302-327: "match", "no_match" (with the debug line of the branch) or "raise"
LabelCheck(c, labels) ==
    IF c.TARGET_LABELS # <<>>
    THEN LET target_label_pairs == parse_target_labels(c.TARGET_LABELS) IN
         IF target_label_pairs # <<>>
         THEN IF ~IsMap(labels) THEN "raise"
              ELSE IF matches_any_label(labels, target_label_pairs) THEN "match"
              ELSE "none_of_target_labels"
         ELSE "target_labels_invalid"
    ELSE IF c.TARGET_LABEL_KEY # <<>> /\ c.TARGET_LABEL_VALUE # <<>>
    THEN IF ~IsMap(labels) THEN "raise"
         ELSE IF Get(labels, c.TARGET_LABEL_KEY, JNull) # Str(c.TARGET_LABEL_VALUE)
         THEN "label_mismatch"
         ELSE "match"
    ELSE "no_selector"

\* lines 336-343
EnvVarsToInject(c, annotations) ==
    <<EnvVar(c.INJECT_ENV_NAME, Str(c.INJECT_ENV_VALUE))>>
    \o extract_profiler_env_from_annotations(annotations)

\* mutant: the volume and mount operations come first
PatchOpsFilesFirst(c, obj, annotations) ==
    build_files_volume_patch_for_pod(obj)
    \o build_env_patch_for_pod(obj, EnvVarsToInject(c, annotations))

\* lines 345-349
PatchOps(c, obj, annotations) ==
    build_env_patch_for_pod(obj, EnvVarsToInject(c, annotations))
    \o build_files_volume_patch_for_pod(obj)

\* mutant: the test of INJECT_ENV_NAME is missing
InjectUnchecked(c, uid, obj, annotations) ==
    LET patch_ops == PatchOps(c, obj, annotations) IN
    Answer(PatchResponse(uid, patch_ops),
           IF patch_ops # <<>> THEN "emitting_patch" ELSE "no_patch_operations")

\* lines 329-359, the pod having matched
Inject(c, uid, obj, annotations) ==
    IF c.INJECT_ENV_NAME = <<>> THEN Answer(DefaultResponse(uid), "no_inject_name")
    ELSE IF ExtractRaises(annotations) THEN Raised
    ELSE IF EnvPatchRaises(obj, EnvVarsToInject(c, annotations)) THEN Raised
    ELSE IF FilesPatchRaises(obj) THEN Raised
    ELSE LET patch_ops == PatchOps(c, obj, annotations) IN
         Answer(PatchResponse(uid, patch_ops),
                IF patch_ops # <<>> THEN "emitting_patch" ELSE "no_patch_operations")

\* lines 285-327, the request being a Pod request
MutatePod(c, r, uid) ==
    LET namespace == Get(r, "namespace", Str(<<>>))
        obj == OrEmpty(Get(r, "object", EmptyMap))
    IN IF ~IsMap(obj) THEN Raised
       ELSE LET metadata == OrEmpty(Get(obj, "metadata", EmptyMap)) IN
       IF ~IsMap(metadata) THEN Raised
       ELSE LET labels == OrEmpty(Get(metadata, "labels", EmptyMap))
                annotations == OrEmpty(Get(metadata, "annotations", EmptyMap))
                label_check == LabelCheck(c, labels)
                namespace_check == NamespaceCheck(c, namespace)
            IN IF namespace_check # "ok"
               THEN Answer(DefaultResponse(uid), namespace_check)
               ELSE IF label_check = "raise" THEN Raised
               ELSE IF label_check # "match" THEN Answer(DefaultResponse(uid), label_check)
               ELSE Inject(c, uid, obj, annotations)

\* lines 259-359: the response to a request body under configuration c
mutate(c, body) ==
    LET review == OrEmpty(get_json(body)) IN
    IF ~IsMap(review) THEN Raised
    ELSE LET r == Get(review, "request", EmptyMap) IN
    IF ~IsMap(r) THEN Raised
    ELSE LET uid == Get(r, "uid", JNull)
             kind == Get(r, "kind", EmptyMap)
         IN IF ~IsMap(kind) THEN Raised
            ELSE IF Get(kind, "kind", JNull) # A("Pod")
            THEN Answer(DefaultResponse(uid), "non_pod_kind")
            ELSE MutatePod(c, r, uid)

(***************************************************************************)
(* The API server's side: RFC 6902 sequential application of a patch.       *)
(***************************************************************************)
Failure == [t |-> "fail", v |-> <<>>]

\* the member of doc a reference token names, Failure if there is none
Child(doc, tok) ==
    IF doc.t = "map" THEN (IF tok \in Keys(doc) THEN doc.v[tok] ELSE Failure)
    ELSE IF doc.t = "list"
    THEN (IF IsIndexToken(tok) /\ TokenIndex(tok) < Len(doc.v)
          THEN doc.v[TokenIndex(tok) + 1] ELSE Failure)
    ELSE Failure

PutChild(doc, tok, x) ==
    IF doc.t = "map"
    THEN Map([k \in DOMAIN doc.v \cup {tok} |-> IF k = tok THEN x ELSE doc.v[k]])
    ELSE List([doc.v EXCEPT ![TokenIndex(tok) + 1] = x])

\* "add": the parent must exist; a member of an object is set, an element of
\* an array is inserted ("-" appends)
AddMember(doc, tok, value) ==
    IF doc.t = "map" THEN PutChild(doc, tok, value)
    ELSE IF doc.t = "list"
    THEN IF tok = "-" THEN List(Append(doc.v, value))
         ELSE IF IsIndexToken(tok) /\ TokenIndex(tok) <= Len(doc.v)
         THEN List(SubSeq(doc.v, 1, TokenIndex(tok)) \o <<value>>
                   \o SubSeq(doc.v, TokenIndex(tok) + 1, Len(doc.v)))
         ELSE Failure
    ELSE Failure

\* "replace": the target location must exist
ReplaceMember(doc, tok, value) ==
    IF Child(doc, tok) .t = "fail" THEN Failure ELSE PutChild(doc, tok, value)

RECURSIVE ApplyAt(_, _, _, _)
ApplyAt(doc, path, op, value) ==
    IF path = <<>> THEN value
    ELSE IF Len(path) = 1
    THEN (IF op = "add" THEN AddMember(doc, path[1], value)
          ELSE ReplaceMember(doc, path[1], value))
    ELSE LET child == Child(doc, Head(path)) IN
         IF child .t = "fail" THEN Failure
         ELSE LET r == ApplyAt(child, Tail(path), op, value) IN
              IF r .t = "fail" THEN Failure ELSE PutChild(doc, Head(path), r)

ApplyOp(doc, o) == ApplyAt(doc, o.path, o.op, o.value)

\* the operations applied one after another; Failure as soon as one fails
RECURSIVE ApplyPatch(_, _)
ApplyPatch(doc, ops) ==
    IF ops = <<>> \/ doc.t = "fail" THEN doc
    ELSE ApplyPatch(ApplyOp(doc, Head(ops)), Tail(ops))

\* base64 and JSON decoding of the "patch" field
B64Decode(s) == s.v
JsonLoads(s) == s.v

\* the operation list a response carries (empty without a patch)
ResponseOps(r) ==
    IF r.status = 200 /\ r.body.v.response.v.patch.t # "absent"
    THEN JsonLoads(B64Decode(r.body.v.response.v.patch))
    ELSE <<>>

\* the pod object of an AdmissionReview body, JNull if it carries none
ReviewObject(body) ==
    IF IsMap(body) /\ IsMap(Get(body, "request", JNull))
    THEN Get(body.v.request, "object", JNull)
    ELSE JNull

(***************************************************************************)
(* Inputs: configurations, pods and AdmissionReview bodies.                 *)
(***************************************************************************)
Config(ns, labels_str, key, value, inject_name) ==
    [TARGET_NAMESPACE |-> ns, TARGET_LABELS |-> labels_str,
     TARGET_LABEL_KEY |-> key, TARGET_LABEL_VALUE |-> value,
     INJECT_ENV_NAME |-> inject_name,
     INJECT_ENV_VALUE |-> <<"/home/vllm/profiler">>]

InjectName == <<"PYTHONPATH">>

\* values of TARGET_LABELS
MultiLabels == <<"app", "=", "vllm", ",", "role", "=", "worker">>
TargetLabelsChoices ==
    { <<>>,
      MultiLabels,
      <<" ", "app", " ", "=", " ", "vllm", " ", ",", "novalue">>,
      <<"tier", "=", "a", "=", "b">>,
      <<"app", "vllm", ",", " ", ",", "role">>,
      <<" ">> }

\* values of (TARGET_LABEL_KEY, TARGET_LABEL_VALUE)
LegacyChoices ==
    { <<<<>>, <<>>>>, <<<<"app">>, <<"vllm">>>>, <<<<"role">>, <<>>>> }

SelectorConfigs ==
    { Config(ns, ls, kv[1], kv[2], n) :
        ns \in {<<>>, <<"prod">>}, ls \in TargetLabelsChoices,
        kv \in LegacyChoices, n \in {<<>>, InjectName} }

PatchConfigs ==
    { Config(<<"prod">>, MultiLabels, <<>>, <<>>, InjectName),
      Config(<<"prod">>, <<>>, <<"app">>, <<"vllm">>, InjectName) }

LabelKeys == { <<"app">>, <<"role">>, <<"tier">> }

Labels(f) == Map([k \in LabelKeys |-> IF k \in DOMAIN f THEN Str(f[k]) ELSE JAbsent])

NoLabels == Labels(<<>>)
AppVllm == Labels([k \in {<<"app">>} |-> <<"vllm">>])

LabelChoices ==
    { NoLabels, AppVllm,
      Labels([k \in {<<"app">>} |-> <<"other">>]),
      Labels([k \in {<<"role">>} |-> <<"worker">>]),
      Labels([k \in {<<"role">>} |-> <<"vllm">>]),
      Labels([k \in {<<"app">>, <<"role">>} |->
                 IF k = <<"app">> THEN <<"other">> ELSE <<"worker">>]),
      Labels([k \in {<<"tier">>} |-> <<"a", "=", "b">>]),
      Labels([k \in {<<"tier">>} |-> <<"a">>]) }

AnnotationKeys ==
    { AnnotationKey(AnnotationToEnv[i].suffix) : i \in 1..Len(AnnotationToEnv) }
    \cup { AnnotationKey("unknown"), <<"team/", "ranges">> }

Annotations(f) ==
    Map([k \in AnnotationKeys |-> IF k \in DOMAIN f THEN Str(f[k]) ELSE JAbsent])

NoAnnotations == Annotations(<<>>)
RangesOnly == Annotations([k \in {AnnotationKey("ranges")} |-> <<"50-100">>])

AnnotationChoices ==
    { NoAnnotations, RangesOnly,
      Annotations([k \in {AnnotationKey("debug"), AnnotationKey("ranges"),
                          AnnotationKey("unknown")} |->
                     IF k = AnnotationKey("ranges") THEN <<"50-100", ",", "200-300">>
                     ELSE <<"true">>]),
      Annotations([k \in {AnnotationKey("unknown"), <<"team/", "ranges">>} |-> <<"1-2">>]) }

EnvEntry(n, value, valueFrom) == Map([name |-> Str(n), value |-> value, valueFrom |-> valueFrom])

\* env entries a submitted container may hold
EnvEntries ==
    { EnvEntry(InjectName, A("/stale"), JAbsent),
      EnvEntry(InjectName, JAbsent, Map([secretKeyRef |-> A("s")])),
      EnvEntry(<<"HOME">>, A("/root"), JAbsent) }

Mount(n, path, sub, ro) ==
    Map([name |-> Str(n), mountPath |-> Str(path), subPath |-> sub, readOnly |-> ro])

\* volumeMounts a submitted container may hold
MountEntries ==
    { FileMount(FILE_KEYS[1]),
      Mount(<<"data">>, FILE_KEYS[1].mountPath, JAbsent, JAbsent),
      Mount(<<"data">>, <<"/data">>, JAbsent, JAbsent) }

\* volumes a submitted pod may hold
VolumeEntries ==
    { FilesVolume, Map([name |-> A("data"), configMap |-> JAbsent]) }

SeqsUpTo(S, n) == UNION { [1..k -> S] : k \in 0..n }

\* a list of at most n items of S, or no list at all
ListChoices(S, n) == {JAbsent} \cup { List(s) : s \in SeqsUpTo(S, n) }

ListLen(j) == IF IsList(j) THEN Len(j.v) ELSE 0

Container(env, mounts) == Map([name |-> A("main"), env |-> env, volumeMounts |-> mounts])

\* the containers of at most n items (the container itself counts)
ContainersUpTo(n) ==
    { Container(env, mounts) :
        env \in ListChoices(EnvEntries, n - 1),
        mounts \in ListChoices(MountEntries, n - 1) }

ContainerSize(c) == 1 + ListLen(c.v.env) + ListLen(c.v.volumeMounts)

RECURSIVE ContainerSeqs(_)
ContainerSeqs(n) ==
    {<<>>} \cup
    UNION { { <<c>> \o rest : rest \in ContainerSeqs(n - ContainerSize(c)) } :
              c \in { d \in ContainersUpTo(n) : ContainerSize(d) <= n } }

RECURSIVE SeqSum(_)
SeqSum(s) == IF s = <<>> THEN 0 ELSE Head(s) + SeqSum(Tail(s))

PodSize(containers, volumes) ==
    SeqSum([i \in 1..Len(containers) |-> ContainerSize(containers[i])]) + ListLen(volumes)

\* the specs of at most n items, and the spec without these keys
SpecsUpTo(n) ==
    { Map([containers |-> List(cs), volumes |-> vs]) :
        cs \in ContainerSeqs(n),
        vs \in ListChoices(VolumeEntries, n) }
    \cup { Map([containers |-> JAbsent, volumes |-> JAbsent]) }

Specs ==
    { s \in SpecsUpTo(MaxItems) :
        PodSize(Items(s.v.containers), s.v.volumes) <= MaxItems }

Pod(labels, annotations, spec) ==
    Map([metadata |-> Map([name |-> A("pod-1"), labels |-> labels,
                           annotations |-> annotations]),
         spec |-> spec])

Review(uid, kind, namespace, object) ==
    Map([request |-> Map([uid |-> uid,
                          kind |-> Map([group |-> Str(<<>>), kind |-> A(kind)]),
                          namespace |-> namespace,
                          operation |-> A("CREATE"),
                          object |-> object])])

\* pods for the patch builders: every spec within the bound, and no spec
PatchRequests ==
    { Review(A("uid-1"), "Pod", A("prod"), Pod(l, a, s)) :
        l \in {AppVllm, NoLabels}, a \in AnnotationChoices, s \in Specs \cup {JAbsent} }

BareContainer == Container(JAbsent, JAbsent)

SelectorSpecs ==
    { Map([containers |-> JAbsent, volumes |-> JAbsent]),
      Map([containers |-> List(<<BareContainer>>), volumes |-> JAbsent]),
      Map([containers |-> List(<<Container(List(<<EnvEntry(InjectName, A("/stale"), JAbsent)>>),
                                           List(<<FileMount(FILE_KEYS[1])>>))>>),
           volumes |-> List(<<FilesVolume>>)]) }

\* requests for the selector: every kind, namespace and label set
SelectorRequests ==
    { Review(A("uid-1"), kind, ns, Pod(l, a, s)) :
        kind \in {"Pod", "Deployment"}, ns \in {A("prod"), A("dev"), JAbsent},
        l \in LabelChoices, a \in {NoAnnotations, RangesOnly}, s \in SelectorSpecs }

(***************************************************************************)
(* The "patch" field as characters: json.dumps, str.encode and              *)
(* base64.b64encode of lines 353-355, and their inverses on the API         *)
(* server's side.  A response of the state machine keeps the field as       *)
(* B64Encode(JsonDumps(patch_ops)); PatchString gives its characters.       *)
(***************************************************************************)
\* the order in which the members of the dicts the handler builds are written
\* (Python dicts keep insertion order)
FieldOrder ==
    << "op", "path", "name", "value", "valueFrom", "configMap", "secretKeyRef",
       "mountPath", "subPath", "readOnly" >>

\* f"/spec/containers/{i}/env": the path as the string the handler writes
PointerString(path) == Str(Flatten([i \in 1..Len(path) |-> <<"/", path[i]>>]))

\* the dict {"op": ..., "path": ..., "value": ...} of one operation
OpDict(o) == Map([op |-> A(o.op), path |-> PointerString(o.path), value |-> o.value])

\* mutant: no character is escaped
EscapeNone(s) == s

\* json.dumps escapes the quote and the backslash inside a string
EscapeChars(s) ==
    Flatten([i \in 1..Len(s) |->
                IF s[i] \in {"\"", "\\"} THEN <<"\\", s[i]>> ELSE <<s[i]>>])

\* the pieces joined by ", " (json.dumps default separators)
RECURSIVE JoinItems(_)
JoinItems(pieces) ==
    IF pieces = <<>> THEN <<>>
    ELSE IF Len(pieces) = 1 THEN pieces[1]
    ELSE pieces[1] \o <<",", " ">> \o JoinItems(Tail(pieces))

\* json.dumps of a JSON value: the text, one character per item
RECURSIVE JsonText(_)
JsonText(j) ==
    CASE j.t = "null" -> <<"null">>
      [] j.t = "bool" -> IF j.v THEN <<"true">> ELSE <<"false">>
      [] j.t = "num" -> <<"7">>
      [] j.t = "str" -> <<"\"">> \o EscapeChars(j.v) \o <<"\"">>
      [] j.t = "list" ->
            <<"[">> \o JoinItems([i \in 1..Len(j.v) |-> JsonText(j.v[i])]) \o <<"]">>
      [] j.t = "map" ->
            <<"{">>
            \o JoinItems(Flatten([k \in 1..Len(FieldOrder) |->
                  IF FieldOrder[k] \in Keys(j)
                  THEN << <<"\"", FieldOrder[k], "\"", ":", " ">>
                          \o JsonText(j.v[FieldOrder[k]]) >>
                  ELSE <<>>]))
            \o <<"}">>

json_dumps(ops) == JsonText(List([i \in 1..Len(ops) |-> OpDict(ops[i])]))

\* the characters a patch text is written with; str.encode("utf-8") gives
\* each its byte (here: its position in this table)
Alphabet ==
    << "{", "}", "[", "]", ",", ":", " ", "\"", "\\", "/", "-",
       "true", "false", "null", "7", "add", "replace",
       "spec", "containers", "env", "volumeMounts", "volumes" >>
    \o FieldOrder \o Digits
    \o InjectName \o Config(<<>>, <<>>, <<>>, <<>>, <<>>).INJECT_ENV_VALUE
    \o Flatten([i \in 1..Len(AnnotationToEnv) |-> AnnotationToEnv[i].env])
    \o <<"50-100", "200-300", "1-2">>
    \o FILES_VOLUME_NAME \o FILES_CONFIGMAP_NAME
    \o Flatten([i \in 1..Len(FILE_KEYS) |-> FILE_KEYS[i].key \o FILE_KEYS[i].mountPath])

ByteOf ==
    [c \in {Alphabet[i] : i \in 1..Len(Alphabet)} |->
        CHOOSE i \in 1..Len(Alphabet) :
            Alphabet[i] = c /\ \A j \in 1..(i - 1) : Alphabet[j] # c]

Utf8Encode(text) == [i \in 1..Len(text) |-> ByteOf[text[i]]]
Utf8Decode(bytes) == [i \in 1..Len(bytes) |-> Alphabet[bytes[i]]]

\* the base64 alphabet of RFC 4648
B64Chars ==
    << "A", "B", "C", "D", "E", "F", "G", "H", "I", "J", "K", "L", "M",
       "N", "O", "P", "Q", "R", "S", "T", "U", "V", "W", "X", "Y", "Z",
       "a", "b", "c", "d", "e", "f", "g", "h", "i", "j", "k", "l", "m",
       "n", "o", "p", "q", "r", "s", "t", "u", "v", "w", "x", "y", "z",
       "0", "1", "2", "3", "4", "5", "6", "7", "8", "9", "+", "/" >>

\* base64.b64encode: three bytes give four characters, "=" pads the last group
b64encode(bytes) ==
    LET n == Len(bytes)
        byte(i) == IF i <= n THEN bytes[i] ELSE 0
        char(k) ==
            LET q == (k - 1) \div 4
                r == (k - 1) % 4
                b1 == byte(3 * q + 1)
                b2 == byte(3 * q + 2)
                b3 == byte(3 * q + 3)
            IN CASE r = 0 -> B64Chars[(b1 \div 4) + 1]
                 [] r = 1 -> B64Chars[(b1 % 4) * 16 + (b2 \div 16) + 1]
                 [] r = 2 -> IF 3 * q + 2 > n THEN "="
                             ELSE B64Chars[(b2 % 16) * 4 + (b3 \div 64) + 1]
                 [] r = 3 -> IF 3 * q + 3 > n THEN "="
                             ELSE B64Chars[(b3 % 64) + 1]
    IN [k \in 1..(4 * ((n + 2) \div 3)) |-> char(k)]

SextetOf ==
    [c \in {B64Chars[i] : i \in 1..64} |-> (CHOOSE i \in 1..64 : B64Chars[i] = c) - 1]

\* base64 decoding: four characters give up to three bytes
b64decode(chars) ==
    LET m == Len(chars)
        pad == IF m = 0 THEN 0
               ELSE IF chars[m - 1] = "=" THEN 2
               ELSE IF chars[m] = "=" THEN 1 ELSE 0
        six(k) == IF chars[k] = "=" THEN 0 ELSE SextetOf[chars[k]]
        byte(i) ==
            LET q == (i - 1) \div 3
                r == (i - 1) % 3
                s1 == six(4 * q + 1)
                s2 == six(4 * q + 2)
                s3 == six(4 * q + 3)
                s4 == six(4 * q + 4)
            IN CASE r = 0 -> s1 * 4 + (s2 \div 16)
                 [] r = 1 -> (s2 % 16) * 16 + (s3 \div 4)
                 [] r = 2 -> (s3 % 4) * 64 + s4
    IN [i \in 1..(3 * (m \div 4) - pad) |-> byte(i)]

\* a JSON decoder over the text: each Parse operator gives the value read
\* and the position after it; Failure when the text is not JSON
ParseResult(value, next) == [value |-> value, next |-> next]

SkipSpace(text, i) == IF i <= Len(text) /\ text[i] = " " THEN i + 1 ELSE i

RECURSIVE ParseChars(_, _, _)
ParseChars(text, i, acc) ==
    IF i > Len(text) THEN ParseResult(Failure, i)
    ELSE IF text[i] = "\"" THEN ParseResult(Str(acc), i + 1)
    ELSE IF text[i] = "\\"
    THEN (IF i + 1 > Len(text) THEN ParseResult(Failure, i)
          ELSE ParseChars(text, i + 2, Append(acc, text[i + 1])))
    ELSE ParseChars(text, i + 1, Append(acc, text[i]))

RECURSIVE ParseValue(_, _)
RECURSIVE ParseItems(_, _, _)
RECURSIVE ParseMembers(_, _, _)

ParseValue(text, i) ==
    IF i > Len(text) THEN ParseResult(Failure, i)
    ELSE CASE text[i] = "{" ->
                IF i + 1 <= Len(text) /\ text[i + 1] = "}"
                THEN ParseResult(EmptyMap, i + 2)
                ELSE ParseMembers(text, i + 1, <<>>)
           [] text[i] = "[" ->
                IF i + 1 <= Len(text) /\ text[i + 1] = "]"
                THEN ParseResult(List(<<>>), i + 2)
                ELSE ParseItems(text, i + 1, <<>>)
           [] text[i] = "\"" -> ParseChars(text, i + 1, <<>>)
           [] text[i] = "true" -> ParseResult(JTrue, i + 1)
           [] text[i] = "false" -> ParseResult([t |-> "bool", v |-> FALSE], i + 1)
           [] text[i] = "null" -> ParseResult(JNull, i + 1)
           [] text[i] = "7" -> ParseResult(JNum, i + 1)
           [] OTHER -> ParseResult(Failure, i)

ParseItems(text, i, acc) ==
    LET r == ParseValue(text, i) IN
    IF r.value.t = "fail" \/ r.next > Len(text) THEN ParseResult(Failure, i)
    ELSE IF text[r.next] = "," 
    THEN ParseItems(text, SkipSpace(text, r.next + 1), Append(acc, r.value))
    ELSE IF text[r.next] = "]" THEN ParseResult(List(Append(acc, r.value)), r.next + 1)
    ELSE ParseResult(Failure, i)

ParseMembers(text, i, acc) ==
    LET k == ParseValue(text, i) IN
    IF k.value.t # "str" \/ Len(k.value.v) # 1 \/ k.next > Len(text)
       \/ text[k.next] # ":"
    THEN ParseResult(Failure, i)
    ELSE LET r == ParseValue(text, SkipSpace(text, k.next + 1))
             key == k.value.v[1]
             members == [x \in DOMAIN acc \cup {key} |->
                            IF x = key THEN r.value ELSE acc[x]]
         IN IF r.value.t = "fail" \/ r.next > Len(text) THEN ParseResult(Failure, i)
            ELSE IF text[r.next] = ","
            THEN ParseMembers(text, SkipSpace(text, r.next + 1), members)
            ELSE IF text[r.next] = "}" THEN ParseResult(Map(members), r.next + 1)
            ELSE ParseResult(Failure, i)

\* json.loads: the value the whole text stands for
json_loads(text) ==
    LET r == ParseValue(text, 1) IN
    IF r.value.t # "fail" /\ r.next = Len(text) + 1 THEN r.value ELSE Failure

\* the reference tokens of a JSON Pointer string (RFC 6901)
PointerTokens(s) ==
    LET pieces == Tail(Split(s, "/")) IN
    [i \in 1..Len(pieces) |-> IF Len(pieces[i]) = 1 THEN pieces[i][1] ELSE ""]

\* lines 353-355: the characters of the "patch" field of a response
PatchString(r) ==
    b64encode(Utf8Encode(json_dumps(r.body.v.response.v.patch.v.v)))

\* the API server decodes the field: base64, then UTF-8, then JSON, and
\* reads each object as an operation; Failure if it is not a patch document
DecodePatch(chars) ==
    LET doc == json_loads(Utf8Decode(b64decode(chars))) IN
    IF doc.t # "list" THEN Failure
    ELSE IF \E i \in 1..Len(doc.v) :
               \/ doc.v[i].t # "map"
               \/ Keys(doc.v[i]) # {"op", "path", "value"}
               \/ doc.v[i].v.op.t # "str" \/ Len(doc.v[i].v.op.v) # 1
               \/ doc.v[i].v.path.t # "str"
    THEN Failure
    ELSE List([i \in 1..Len(doc.v) |->
                 [op |-> doc.v[i].v.op.v[1],
                  path |-> PointerTokens(doc.v[i].v.path.v),
                  value |-> doc.v[i].v.value]])

(***************************************************************************)
(* The state machine: the webhook process holds its configuration; the API  *)
(* server sends an AdmissionReview, the handler answers, the API server     *)
(* applies the patch and may send the patched pod again.                    *)
(***************************************************************************)
NoResponse == [status |-> 0, body |-> JAbsent, log |-> ""]

InitWith(configs) ==
    /\ cfg \in configs
    /\ pc = "idle"
    /\ req = JNull
    /\ resp = NoResponse
    /\ patched = JNull
    /\ round = 0
    /\ workers = <<>>
    /\ wrapper = <<>>
    /\ parsed = <<>>

\* the API server posts an AdmissionReview to /mutate
Receive(bodies) ==
    /\ pc = "idle"
    /\ \E body \in bodies : req' = body
    /\ pc' = "received"
    /\ round' = 1
    /\ UNCHANGED <<cfg, resp, patched, workers, wrapper, parsed>>

\* the handler runs to its response
Mutate ==
    /\ pc = "received"
    /\ resp' = mutate(cfg, req)
    /\ pc' = "responded"
    /\ UNCHANGED <<cfg, req, patched, round, workers, wrapper, parsed>>

\* the API server applies the response's patch to the object it sent
ApiApply ==
    /\ pc = "responded"
    /\ patched' = IF resp.status = 200
                  THEN ApplyPatch(ReviewObject(req), ResponseOps(resp))
                  ELSE ReviewObject(req)
    /\ pc' = IF resp.status # 200 THEN "webhook_error"
             ELSE IF patched'.t = "fail" THEN "patch_failed"
             ELSE "applied"
    /\ UNCHANGED <<cfg, req, resp, round, workers, wrapper, parsed>>

\* the patched pod is submitted for admission again
Readmit ==
    /\ pc = "applied"
    /\ IsMap(patched)
    /\ round < MaxAdmissions
    /\ req' = Map([req.v EXCEPT !.request = Map([req.v.request.v EXCEPT !.object = patched])])
    /\ round' = round + 1
    /\ pc' = "received"
    /\ UNCHANGED <<cfg, resp, patched, workers, wrapper, parsed>>

Init == InitWith(PatchConfigs)

Next ==
    \/ Receive(PatchRequests)
    \/ Mutate
    \/ ApiApply
    \/ Readmit

Spec == Init /\ [][Next]_vars

InitSelector == InitWith(SelectorConfigs)

NextSelector ==
    \/ Receive(SelectorRequests)
    \/ Mutate
    \/ ApiApply
    \/ Readmit

SpecSelector == InitSelector /\ [][NextSelector]_vars

\* bodies that are no JSON, or JSON that holds nothing
EmptyBodies ==
    { Unparseable, JNull, EmptyMap, List(<<>>), Str(<<>>),
      Map([request |-> EmptyMap]) }

PipelineRequests == SelectorRequests \cup EmptyBodies

InitPipeline == InitWith(SelectorConfigs)

NextPipeline ==
    \/ Receive(PipelineRequests)
    \/ Mutate
    \/ ApiApply
    \/ Readmit

SpecPipeline == InitPipeline /\ [][NextPipeline]_vars

\* requests for the response envelope: uids of every kind, annotation values
\* with characters json.dumps escapes, pods with and without work to do
EnvelopeUids == { A("uid-1"), A("uid-2"), JNull, JNum, JAbsent }

EnvelopeAnnotations ==
    AnnotationChoices
    \cup { Annotations([k \in {AnnotationKey("ranges")} |-> <<"50-100", "\"", "\\", "/">>]) }

EnvelopeSpecs ==
    SelectorSpecs
    \cup { Map([containers |-> JAbsent, volumes |-> List(<<FilesVolume>>)]),
           Map([containers |-> List(<<BareContainer,
                                      Container(List(<<EnvEntry(<<"HOME">>, A("/root"), JAbsent)>>),
                                                List(<<Mount(<<"data">>, <<"/data">>, JAbsent, JAbsent)>>))>>),
                volumes |-> List(<<Map([name |-> A("data"), configMap |-> JAbsent])>>)]) }

EnvelopeRequests ==
    { Review(uid, kind, A("prod"), Pod(l, a, s)) :
        uid \in EnvelopeUids, kind \in {"Pod", "Deployment"}, l \in {AppVllm, NoLabels},
        a \in EnvelopeAnnotations, s \in EnvelopeSpecs }

InitEnvelope == InitWith(PatchConfigs)

NextEnvelope ==
    \/ Receive(EnvelopeRequests)
    \/ Mutate
    \/ ApiApply
    \/ Readmit

SpecEnvelope == InitEnvelope /\ [][NextEnvelope]_vars

(***************************************************************************)
(* Concurrent workers: each serves /mutate with its own locals (req, obj,   *)
(* patch_ops, response_body); the module constants are shared and only      *)
(* read.  A step is one stretch of the handler between two points where     *)
(* another worker may run.                                                  *)
(***************************************************************************)
Workers == 1..NumWorkers

WorkerRequests ==
    { Review(A("uid-1"), "Pod", A("prod"), Pod(AppVllm, a, s)) :
        a \in {NoAnnotations, RangesOnly},
        s \in SelectorSpecs \ {Map([containers |-> JAbsent, volumes |-> JAbsent])} }
    \cup { Review(A("uid-2"), "Pod", A("dev"), Pod(AppVllm, RangesOnly, CHOOSE s \in SelectorSpecs : TRUE)),
           Review(A("uid-3"), "Pod", A("prod"), Pod(NoLabels, RangesOnly, CHOOSE s \in SelectorSpecs : TRUE)) }

IdleWorker == [pc |-> "idle", req |-> JNull, patch_ops |-> <<>>, resp |-> NoResponse]

WorkerObject(w) == OrEmpty(ReviewObject(workers[w].req))
WorkerAnnotations(w) ==
    OrEmpty(Get(OrEmpty(Get(WorkerObject(w), "metadata", EmptyMap)), "annotations", EmptyMap))

\* line 261: a worker takes a request
WorkerReceive(w) ==
    /\ workers[w].pc = "idle"
    /\ \E body \in WorkerRequests :
          workers' = [workers EXCEPT ![w] = [IdleWorker EXCEPT !.pc = "received", !.req = body]]
    /\ UNCHANGED <<cfg, pc, req, resp, patched, round, wrapper, parsed>>

\* lines 261-331: the checks; an early return answers at once
WorkerCheck(w) ==
    /\ workers[w].pc = "received"
    /\ LET r == mutate(cfg, workers[w].req) IN
       workers' = [workers EXCEPT ![w] =
                      IF r.log \in {"emitting_patch", "no_patch_operations"}
                      THEN [@ EXCEPT !.pc = "matched"]
                      ELSE [@ EXCEPT !.pc = "responded", !.resp = r]]
    /\ UNCHANGED <<cfg, pc, req, resp, patched, round, wrapper, parsed>>

\* lines 336-346: patch_ops = build_env_patch_for_pod(obj, env_vars_to_inject)
WorkerBuildEnv(w) ==
    /\ workers[w].pc = "matched"
    /\ workers' = [workers EXCEPT ![w] =
                      [@ EXCEPT !.pc = "env_built",
                                !.patch_ops = build_env_patch_for_pod(
                                    WorkerObject(w), EnvVarsToInject(cfg, WorkerAnnotations(w)))]]
    /\ UNCHANGED <<cfg, pc, req, resp, patched, round, wrapper, parsed>>

\* mutant: the operation list is shared between the workers
WorkerBuildFilesShared(w) ==
    /\ workers[w].pc = "env_built"
    /\ \E v \in Workers :
          workers' = [workers EXCEPT ![w] =
                         [@ EXCEPT !.pc = "files_built",
                                   !.patch_ops = workers[v].patch_ops
                                       \o build_files_volume_patch_for_pod(WorkerObject(w))]]
    /\ UNCHANGED <<cfg, pc, req, resp, patched, round, wrapper, parsed>>

\* line 349: patch_ops.extend(build_files_volume_patch_for_pod(obj))
WorkerBuildFiles(w) ==
    /\ workers[w].pc = "env_built"
    /\ workers' = [workers EXCEPT ![w] =
                      [@ EXCEPT !.pc = "files_built",
                                !.patch_ops = @ \o build_files_volume_patch_for_pod(WorkerObject(w))]]
    /\ UNCHANGED <<cfg, pc, req, resp, patched, round, wrapper, parsed>>

\* lines 351-359: the response is assembled and returned
WorkerRespond(w) ==
    /\ workers[w].pc = "files_built"
    /\ LET patch_ops == workers[w].patch_ops
           uid == Get(workers[w].req.v.request, "uid", JNull)
       IN workers' = [workers EXCEPT ![w] =
                         [@ EXCEPT !.pc = "responded",
                                   !.resp = Answer(PatchResponse(uid, patch_ops),
                                                   IF patch_ops # <<>> THEN "emitting_patch"
                                                   ELSE "no_patch_operations")]]
    /\ UNCHANGED <<cfg, pc, req, resp, patched, round, wrapper, parsed>>

\* the response is sent; the worker is free again
WorkerDone(w) ==
    /\ workers[w].pc = "responded"
    /\ workers' = [workers EXCEPT ![w] = IdleWorker]
    /\ UNCHANGED <<cfg, pc, req, resp, patched, round, wrapper, parsed>>

InitWorkers ==
    /\ cfg \in PatchConfigs
    /\ pc = "idle"
    /\ req = JNull
    /\ resp = NoResponse
    /\ patched = JNull
    /\ round = 0
    /\ workers = [w \in Workers |-> IdleWorker]
    /\ wrapper = <<>>
    /\ parsed = <<>>

NextWorkers ==
    \E w \in Workers :
        \/ WorkerReceive(w)
        \/ WorkerCheck(w)
        \/ WorkerBuildEnv(w)
        \/ WorkerBuildFiles(w)
        \/ WorkerRespond(w)
        \/ WorkerDone(w)

SpecWorkers == InitWorkers /\ [][NextWorkers]_vars

(***************************************************************************)
(* The profiler wrapper (src/sitecustomize.py): the closure state of        *)
(* wrap_func_with_profiler and one action per call of wrapped_func.         *)
(* events records prof.start(), prof.stop() and export_chrome_trace with    *)
(* the number of the call they happen in.                                   *)
(***************************************************************************)
\* lines 58-61: the default when no range is configured
DefaultRanges == << <<100, 150>> >>

LoadRanges(configured) == IF configured = <<>> THEN DefaultRanges ELSE configured

\* the (start, end) lists a configuration may hold
CallNumbers == 0..MaxCallNo
RangeLists == UNION { [1..n -> CallNumbers \X CallNumbers] : n \in 0..MaxRanges }

\* the wrapper is observed for MaxCalls calls
MaxCalls == MaxCallNo + 2

\* lines 244-262: the state wrap_func_with_profiler sets up
NewWrapper(ranges, export_chrome_trace) ==
    [ranges |-> ranges, export_chrome_trace |-> export_chrome_trace,
     count |-> 0, current_range_idx |-> 0, profiling_active |-> FALSE,
     events |-> <<>>, original_calls |-> 0, raised |-> FALSE]

Event(e, count) == [e |-> e, at |-> count]

\* mutant: a range is also started when its start call has passed
wrapped_func_late_start(s) ==
    LET count == s.count + 1
        n == Len(s.ranges)
        starting == /\ ~s.profiling_active
                    /\ s.current_range_idx < n
                    /\ count >= s.ranges[s.current_range_idx + 1][1]
        active == s.profiling_active \/ starting
        started == IF starting THEN Append(s.events, Event("start", count)) ELSE s.events
        \* _config.ranges[current_range_idx] raises IndexError past the end
        index_error == active /\ s.current_range_idx >= n
        stopping == /\ active
                    /\ ~index_error
                    /\ count = s.ranges[s.current_range_idx + 1][2]
        stopped == IF stopping
                   THEN Append(started, Event("stop", count))
                        \o (IF s.export_chrome_trace THEN <<Event("export", count)>> ELSE <<>>)
                   ELSE started
    IN [s EXCEPT !.count = count,
                 !.profiling_active = active /\ ~stopping,
                 !.current_range_idx = IF stopping THEN @ + 1 ELSE @,
                 !.events = stopped,
                 !.original_calls = IF index_error THEN @ ELSE @ + 1,
                 !.raised = index_error]

\* lines 264-324: one call of wrapped_func from state s
wrapped_func(s) ==
    LET count == s.count + 1
        n == Len(s.ranges)
        starting == /\ ~s.profiling_active
                    /\ s.current_range_idx < n
                    /\ count = s.ranges[s.current_range_idx + 1][1]
        active == s.profiling_active \/ starting
        started == IF starting THEN Append(s.events, Event("start", count)) ELSE s.events
        \* _config.ranges[current_range_idx] raises IndexError past the end
        index_error == active /\ s.current_range_idx >= n
        stopping == /\ active
                    /\ ~index_error
                    /\ count = s.ranges[s.current_range_idx + 1][2]
        stopped == IF stopping
                   THEN Append(started, Event("stop", count))
                        \o (IF s.export_chrome_trace THEN <<Event("export", count)>> ELSE <<>>)
                   ELSE started
    IN [s EXCEPT !.count = count,
                 !.profiling_active = active /\ ~stopping,
                 !.current_range_idx = IF stopping THEN @ + 1 ELSE @,
                 !.events = stopped,
                 !.original_calls = IF index_error THEN @ ELSE @ + 1,
                 !.raised = index_error]

\* the wrapped method is called once more
WrappedCall ==
    /\ wrapper.count < MaxCalls
    /\ wrapper' = wrapped_func(wrapper)
    /\ UNCHANGED <<cfg, pc, req, resp, patched, round, workers, parsed>>

InitWrapper ==
    /\ cfg = <<>>
    /\ pc = "idle"
    /\ req = JNull
    /\ resp = NoResponse
    /\ patched = JNull
    /\ round = 0
    /\ workers = <<>>
    /\ parsed = <<>>
    /\ \E configured \in RangeLists, export_chrome_trace \in BOOLEAN :
          wrapper = NewWrapper(LoadRanges(configured), export_chrome_trace)

NextWrapper == WrappedCall

SpecWrapper == InitWrapper /\ [][NextWrapper]_vars

(***************************************************************************)
(* The list parsers: parse_target_labels (src/webhook.py:40-59) and         *)
(* ProfilerConfig._parse_ranges (src/sitecustomize.py:156-174), each with   *)
(* the warnings it logs or prints. In these strings every digit, "-", "="   *)
(* "," and " " is an atom of its own.                                       *)
(***************************************************************************)
\* line 58: one warning per entry without "=", naming the stripped entry
PairWarning(raw) ==
    LET pair == Strip(raw) IN
    IF FirstIndexOf(pair, "=") > 0 THEN <<>> ELSE <<pair>>

\* the warnings parse_target_labels logs, in order
parse_target_labels_warnings(labels_str) ==
    IF labels_str = <<>> THEN <<>>
    ELSE LET pieces == Split(labels_str, ",") IN
         Flatten([i \in 1..Len(pieces) |-> PairWarning(pieces[i])])

\* int(s) raises ValueError unless s, stripped, is a non-empty run of digits
IntRaises(s) ==
    LET t == Strip(s) IN
    t = <<>> \/ \E i \in 1..Len(t) : ~IsIndexToken(t[i])

\* the value of a run of decimal digits
RECURSIVE Decimal(_)
Decimal(t) ==
    IF t = <<>> THEN 0
    ELSE Decimal(SubSeq(t, 1, Len(t) - 1)) * 10 + TokenIndex(t[Len(t)])

\* int(s) where it does not raise
int(s) == Decimal(Strip(s))

\* lines 167-173: one entry of ranges_str: an entry without "-" is passed
\* over; start, end = range_str.split('-') raises ValueError unless there
\* are two pieces, int() unless each is a number; the ValueError is printed
\* as a warning
ParseRange(raw) ==
    LET range_str == Strip(raw)
        pieces == Split(range_str, "-")
    IN IF FirstIndexOf(range_str, "-") = 0
       THEN [ranges |-> <<>>, warnings |-> <<>>]
       ELSE IF Len(pieces) # 2 \/ IntRaises(pieces[1]) \/ IntRaises(pieces[2])
       THEN [ranges |-> <<>>, warnings |-> <<range_str>>]
       ELSE [ranges |-> << <<int(pieces[1]), int(pieces[2])>> >>, warnings |-> <<>>]

\* _parse_ranges: the list it returns and the warnings it prints
parse_ranges(ranges_str) ==
    LET pieces == Split(ranges_str, ",")
        each == [i \in 1..Len(pieces) |-> ParseRange(pieces[i])]
    IN [ranges |-> Flatten([i \in 1..Len(pieces) |-> each[i].ranges]),
        warnings |-> Flatten([i \in 1..Len(pieces) |-> each[i].warnings])]

\* entries of a configuration string: well-formed and malformed ones
ParserEntries ==
    { <<"1", "-", "2">>,
      <<" ", "2", " ", "-", " ", "1", "0", " ">>,
      <<"1", "2">>,
      <<"x", "-", "1">>,
      <<"1", "-", "2", "-", "3">>,
      <<"-", "1">>,
      <<"1", "-">>,
      <<>>,
      <<"app", "=", "vllm">>,
      <<" ", "a", " ", "=", "b", "=", "c">>,
      <<"=">>,
      <<"app">> }

\* the lists of entries a string is written from; the empty string has none
EntryLists ==
    { es \in UNION { [1..n -> ParserEntries] : n \in 0..MaxEntries } :
         ~(Len(es) = 1 /\ es[1] = <<>>) }

\* ",".join(entries)
RECURSIVE JoinEntries(_)
JoinEntries(es) ==
    IF es = <<>> THEN <<>>
    ELSE IF Len(es) = 1 THEN es[1]
    ELSE es[1] \o <<",">> \o JoinEntries(Tail(es))

NotParsed(es) ==
    [pc |-> "input", entries |-> es, input |-> JoinEntries(es),
     labels |-> <<>>, label_warnings |-> <<>>,
     ranges |-> <<>>, range_warnings |-> <<>>]

\* both parsers are called with the string
ParseStrings ==
    /\ parsed.pc = "input"
    /\ parsed' = [parsed EXCEPT
                     !.pc = "done",
                     !.labels = parse_target_labels(parsed.input),
                     !.label_warnings = parse_target_labels_warnings(parsed.input),
                     !.ranges = parse_ranges(parsed.input).ranges,
                     !.range_warnings = parse_ranges(parsed.input).warnings]
    /\ UNCHANGED <<cfg, pc, req, resp, patched, round, workers, wrapper>>

InitParsers ==
    /\ cfg = <<>>
    /\ pc = "idle"
    /\ req = JNull
    /\ resp = NoResponse
    /\ patched = JNull
    /\ round = 0
    /\ workers = <<>>
    /\ wrapper = <<>>
    /\ \E es \in EntryLists : parsed = NotParsed(es)

NextParsers == ParseStrings

SpecParsers == InitParsers /\ [][NextParsers]_vars

(***************************************************************************)
(* Requests of unexpected shape: a well-formed matching review in which     *)
(* one position holds another JSON value.                                   *)
(***************************************************************************)
ShapePositions ==
    { "body", "request", "uid", "kind", "namespace", "object", "metadata",
      "labels", "annotations", "spec", "containers", "container", "env",
      "env_item", "volumeMounts", "mount_item", "volumes", "volume_item" }

\* positions that are a request body or a list item: they cannot be absent
ItemPositions == { "body", "container", "env_item", "mount_item", "volume_item" }

ShapeValues == { JAbsent, JNull, JNum, A("x"), List(<<>>), List(<<JNum>>), EmptyMap }

At(p, q, b, normal) == IF p = q THEN b ELSE normal

ShapedSpec(p, b) ==
    Map([containers |->
            At(p, "containers", b,
               List(<< At(p, "container", b,
                          Container(
                            At(p, "env", b,
                               List(<< At(p, "env_item", b,
                                          EnvEntry(<<"HOME">>, A("/root"), JAbsent)) >>)),
                            At(p, "volumeMounts", b,
                               List(<< At(p, "mount_item", b,
                                          Mount(<<"data">>, <<"/data">>, JAbsent, JAbsent))
                                    >>)))) >>)),
         volumes |->
            At(p, "volumes", b,
               List(<< At(p, "volume_item", b,
                          Map([name |-> A("data"), configMap |-> JAbsent])) >>))])

ShapedReview(p, b) ==
    At(p, "body", b,
       Map([request |->
          At(p, "request", b,
             Map([uid |-> At(p, "uid", b, A("uid-1")),
                  kind |-> At(p, "kind", b, Map([group |-> Str(<<>>), kind |-> A("Pod")])),
                  namespace |-> At(p, "namespace", b, A("prod")),
                  operation |-> A("CREATE"),
                  object |->
                     At(p, "object", b,
                        Map([metadata |->
                                At(p, "metadata", b,
                                   Map([name |-> A("pod-1"),
                                        labels |-> At(p, "labels", b, AppVllm),
                                        annotations |-> At(p, "annotations", b, RangesOnly)])),
                             spec |-> At(p, "spec", b, ShapedSpec(p, b))]))]))]))

ShapeRequests ==
    { ShapedReview(p, b) : p \in ShapePositions, b \in ShapeValues \ {JAbsent} }
    \cup { ShapedReview(p, JAbsent) : p \in ShapePositions \ ItemPositions }

InitShapes == InitWith(PatchConfigs)

NextShapes ==
    \/ Receive(ShapeRequests)
    \/ Mutate
    \/ ApiApply
    \/ Readmit

SpecShapes == InitShapes /\ [][NextShapes]_vars

(***************************************************************************)
(* Properties.                                                              *)
(***************************************************************************)
Response == resp.body.v.response.v

\* the response is "allow, no patch"
AllowNoPatch ==
    /\ resp.status = 200
    /\ Response.allowed = JTrue
    /\ Response.patchType.t = "absent"
    /\ Response.patch.t = "absent"

\* the handler went on to injection: namespace and labels matched and the
\* injection name is configured
Injected == resp.log \in {"emitting_patch", "no_patch_operations"}

\* C1 (as claimed): when a matching pod is admitted again after the patch of
\* its first admission was applied, the second response is allow without
\* patchType and patch.
C1_SecondRunEmpty ==
    (pc = "responded" /\ round = 2) => AllowNoPatch

\* C2 (as claimed): whatever the shape of the request body, the handler ends
\* in a normal response with allowed = true, never in an unhandled failure.
C2_FailOpen ==
    (pc = "responded") => (resp.status = 200 /\ Response.allowed = JTrue)

\* the pod object and the annotations of the request being handled
RequestPod == ReviewObject(req)
RequestAnnotations == RequestPod.v.metadata.v.annotations
PodContainers(pod) == Items(Get(Get(pod, "spec", EmptyMap), "containers", List(<<>>)))
PodVolumes(pod) == Items(Get(Get(pod, "spec", EmptyMap), "volumes", List(<<>>)))
ContainerEnv(c) == Items(Get(c, "env", List(<<>>)))
ContainerMounts(c) == Items(Get(c, "volumeMounts", List(<<>>)))

\* the variable names the annotation suffixes stand for, in table order
ExpectedEnvNames ==
    << <<"ranges", "VLLM_PROFILER_RANGES">>,
       <<"activities", "VLLM_PROFILER_ACTIVITIES">>,
       <<"record-shapes", "VLLM_PROFILER_RECORD_SHAPES">>,
       <<"with-stack", "VLLM_PROFILER_WITH_STACK">>,
       <<"memory", "VLLM_PROFILER_MEMORY">>,
       <<"output", "VLLM_PROFILER_OUTPUT">>,
       <<"export-trace", "VLLM_PROFILER_EXPORT_TRACE">>,
       <<"debug", "VLLM_PROFILER_DEBUG">> >>

\* the variables a request is expected to get: the primary one, then one per
\* recognized annotation present, each as [name, value]
ExpectedInjection(names) ==
    << [name |-> Str(cfg.INJECT_ENV_NAME), value |-> Str(cfg.INJECT_ENV_VALUE)] >>
    \o Flatten([k \in 1..Len(names) |->
          IF RequestAnnotations.v[<<"vllm.profiler/", names[k][1]>>].t # "absent"
          THEN << [name |-> A(names[k][2]),
                   value |-> RequestAnnotations.v[<<"vllm.profiler/", names[k][1]>>]] >>
          ELSE <<>>])

Expected == ExpectedInjection(ExpectedEnvNames)

\* container c holds variable x exactly once, with x's value
HasEnvOnce(c, x) ==
    /\ Cardinality({j \in 1..Len(ContainerEnv(c)) :
                      Get(ContainerEnv(c)[j], "name", JNull) = x.name}) = 1
    /\ \A j \in 1..Len(ContainerEnv(c)) :
          Get(ContainerEnv(c)[j], "name", JNull) = x.name
             => Get(ContainerEnv(c)[j], "value", JNull) = x.value

\* container c holds exactly one mount at the file's mountPath, of the
\* auxiliary volume
HasMountOnce(c, f) ==
    /\ Cardinality({j \in 1..Len(ContainerMounts(c)) :
                      Get(ContainerMounts(c)[j], "mountPath", JNull) = Str(f.mountPath)}) = 1
    /\ \A j \in 1..Len(ContainerMounts(c)) :
          Get(ContainerMounts(c)[j], "mountPath", JNull) = Str(f.mountPath)
             => Get(ContainerMounts(c)[j], "name", JNull) = Str(FILES_VOLUME_NAME)

HasVolumeOnce(pod) ==
    Cardinality({j \in 1..Len(PodVolumes(pod)) :
                   Get(PodVolumes(pod)[j], "name", JNull) = Str(FILES_VOLUME_NAME)}) = 1

\* C3 (as claimed): the patch of a matching pod applies to the pod it was
\* built for and yields a pod whose every container has each injected
\* variable exactly once with the injected value and exactly one mount of
\* the auxiliary volume per configured file, and whose volumes hold exactly
\* one auxiliary volume.
C3_PatchWellFormed ==
    (pc \in {"applied", "patch_failed"} /\ round = 1 /\ Injected) =>
        /\ IsMap(patched)
        /\ HasVolumeOnce(patched)
        /\ \A i \in 1..Len(PodContainers(patched)) :
              /\ \A k \in 1..Len(Expected) : HasEnvOnce(PodContainers(patched)[i], Expected[k])
              /\ \A k \in 1..Len(FILE_KEYS) : HasMountOnce(PodContainers(patched)[i], FILE_KEYS[k])

\* C4 (as claimed): every operation of a produced patch applies: the API
\* server never finds a path of the patch missing.
C4_PathsExist ==
    (pc = "responded" /\ resp.status = 200) =>
        ApplyPatch(RequestPod, ResponseOps(resp)).t # "fail"

\* the fields of the request being handled
RequestKind == Get(Get(req.v.request, "kind", EmptyMap), "kind", JNull)
RequestNamespace == Get(req.v.request, "namespace", Str(<<>>))
RequestLabels == RequestPod.v.metadata.v.labels

InTargetNamespace ==
    cfg.TARGET_NAMESPACE # <<>> /\ RequestNamespace = Str(cfg.TARGET_NAMESPACE)

\* C5: a Pod request whose namespace is not the configured target namespace,
\* or any Pod request when no target namespace is configured, is answered
\* "allow, no patch", whatever its labels, annotations and the selector.
C5_NamespaceGate ==
    (pc = "responded" /\ RequestKind = A("Pod") /\ ~InTargetNamespace) => AllowNoPatch

\* C5 witness: a pod of another namespace that satisfies the label selector,
\* with the injection name configured, has been answered.
C5_Witness ==
    /\ pc = "responded"
    /\ RequestKind = A("Pod")
    /\ cfg.TARGET_NAMESPACE # <<>>
    /\ RequestNamespace = A("dev")
    /\ LabelCheck(cfg, RequestLabels) = "match"
    /\ cfg.INJECT_ENV_NAME # <<>>
    /\ Len(PodContainers(RequestPod)) > 0

\* the (key, value) pairs each multi-label configuration with at least one
\* valid pair stands for
ValidPairs(labels_str) ==
    CASE labels_str = <<"app", "=", "vllm", ",", "role", "=", "worker">> ->
            { <<<<"app">>, <<"vllm">>>>, <<<<"role">>, <<"worker">>>> }
      [] labels_str = <<" ", "app", " ", "=", " ", "vllm", " ", ",", "novalue">> ->
            { <<<<"app">>, <<"vllm">>>> }
      [] labels_str = <<"tier", "=", "a", "=", "b">> ->
            { <<<<"tier">>, <<"a", "=", "b">>>> }
      [] OTHER -> {}

\* the handler passed the label check
LabelsMatched == resp.log \in {"no_inject_name", "emitting_patch", "no_patch_operations"}

\* C6: in multi-label mode a pod of the target namespace passes the label
\* check iff one configured pair has labels[key] = value, whatever the legacy
\* pair is; a pod that does not pass is answered "allow, no patch".
C6_MultiLabelMatch ==
    (pc = "responded" /\ RequestKind = A("Pod") /\ InTargetNamespace
       /\ ValidPairs(cfg.TARGET_LABELS) # {}) =>
        /\ LabelsMatched <=>
              \E kv \in ValidPairs(cfg.TARGET_LABELS) : RequestLabels.v[kv[1]] = Str(kv[2])
        /\ ~LabelsMatched => (AllowNoPatch /\ resp.log = "none_of_target_labels")

\* C6 witness: multi-label mode with the legacy pair set as well; the pod
\* carries the legacy label and none of the multi-label pairs, and was not
\* matched.
C6_Witness ==
    /\ pc = "responded"
    /\ RequestKind = A("Pod")
    /\ InTargetNamespace
    /\ ValidPairs(cfg.TARGET_LABELS) # {}
    /\ cfg.TARGET_LABEL_KEY = <<"app">>
    /\ cfg.TARGET_LABEL_VALUE = <<"vllm">>
    /\ RequestLabels.v[<<"app">>] = A("vllm")
    /\ cfg.INJECT_ENV_NAME # <<>>
    /\ resp.log = "none_of_target_labels"

\* C7: when TARGET_LABELS is non-empty and none of its entries holds an "=",
\* every request is answered "allow, no patch", also with a legacy pair
\* configured that the pod satisfies.
C7_InvalidMultiLabels ==
    (pc = "responded" /\ cfg.TARGET_LABELS # <<>>
       /\ \A i \in 1..Len(cfg.TARGET_LABELS) : cfg.TARGET_LABELS[i] # "=") => AllowNoPatch

\* C7 witness: such a configuration with the legacy pair app=vllm, and a pod
\* of the target namespace labelled app=vllm, answered at the label check.
C7_Witness ==
    /\ pc = "responded"
    /\ RequestKind = A("Pod")
    /\ InTargetNamespace
    /\ cfg.TARGET_LABELS = <<"app", "vllm", ",", " ", ",", "role">>
    /\ cfg.TARGET_LABEL_KEY = <<"app">>
    /\ cfg.TARGET_LABEL_VALUE = <<"vllm">>
    /\ RequestLabels.v[<<"app">>] = A("vllm")
    /\ cfg.INJECT_ENV_NAME # <<>>
    /\ resp.log = "target_labels_invalid"

\* the operations of the response being looked at
Ops == ResponseOps(resp)

\* position (from 1) of the first env entry of container c named n, 0 if none
FirstNamed(c, n) ==
    IF \E j \in 1..Len(ContainerEnv(c)) : Get(ContainerEnv(c)[j], "name", JNull) = n
    THEN CHOOSE j \in 1..Len(ContainerEnv(c)) :
            /\ Get(ContainerEnv(c)[j], "name", JNull) = n
            /\ \A h \in 1..(j - 1) : Get(ContainerEnv(c)[h], "name", JNull) # n
    ELSE 0

\* operation o is on the env list of the container at position i (from 1)
OnEnvOf(o, i) ==
    /\ Len(o.path) >= 4
    /\ SubSeq(o.path, 1, 4) = <<"spec", "containers", Digits[i], "env">>

\* operation o adds a variable named n
AddsName(o, n) ==
    /\ o.op = "add"
    /\ \/ o.value.t = "map" /\ o.value.v.name = n
       \/ o.value.t = "list" /\ \E h \in 1..Len(o.value.v) : o.value.v[h].v.name = n

\* C8: for every container whose env list holds an entry named like an
\* injected variable, the patch holds exactly one replace of that variable's
\* value in that container, at the index of the first such entry and on its
\* value field only, and no add of that variable in that container; the
\* container gets no other replace.
C8_ReplaceExisting ==
    (pc = "responded" /\ Injected) =>
        \A i \in 1..Len(PodContainers(RequestPod)) :
            LET c == PodContainers(RequestPod)[i]
                present == {k \in 1..Len(Expected) : FirstNamed(c, Expected[k].name) > 0}
            IN /\ \A k \in present :
                    /\ Cardinality({p \in 1..Len(Ops) :
                          /\ Ops[p].op = "replace"
                          /\ Ops[p].path = <<"spec", "containers", Digits[i], "env",
                                             Digits[FirstNamed(c, Expected[k].name)], "value">>
                          /\ Ops[p].value = Expected[k].value}) = 1
                    /\ \A p \in 1..Len(Ops) :
                          OnEnvOf(Ops[p], i) => ~AddsName(Ops[p], Expected[k].name)
               /\ Cardinality({p \in 1..Len(Ops) : Ops[p].op = "replace" /\ OnEnvOf(Ops[p], i)})
                    = Cardinality(present)

\* C8 witness: a patch was answered for a pod in which the injected name sits
\* in the second place of a container's env list, or in the second container.
C8_Witness ==
    /\ pc = "responded"
    /\ Injected
    /\ round = 1
    /\ \E i \in 1..Len(PodContainers(RequestPod)) :
          LET j == FirstNamed(PodContainers(RequestPod)[i], Str(cfg.INJECT_ENV_NAME)) IN
          j > 0 /\ (j = 2 \/ i = 2)

\* {"name": x.name, "value": x.value} for each expected variable
AsEnvList(xs) ==
    [k \in 1..Len(xs) |-> Map([name |-> xs[k].name, value |-> xs[k].value,
                               valueFrom |-> JAbsent])]

FirstContainer == PodContainers(RequestPod)[1]

\* the patch shows the injection list xs on the first container: created as
\* a whole when the container has no env entries, appended one by one when
\* it has entries and none of the names
ShowsInjection(xs) ==
    /\ ContainerEnv(FirstContainer) = <<>> =>
          /\ Len(Ops) >= 1
          /\ Ops[1] = [op |-> "add", path |-> <<"spec", "containers", "0", "env">>,
                       value |-> List(AsEnvList(xs))]
    /\ (/\ ContainerEnv(FirstContainer) # <<>>
        /\ \A k \in 1..Len(xs) : FirstNamed(FirstContainer, xs[k].name) = 0) =>
          /\ Len(Ops) >= Len(xs)
          /\ \A k \in 1..Len(xs) :
                Ops[k] = [op |-> "add", path |-> <<"spec", "containers", "0", "env", "-">>,
                          value |-> AsEnvList(xs)[k]]

\* the variable names as the claim gives them for vllm.profiler/ranges
ClaimedEnvNames == << <<"ranges", "RANGES">> >>

\* C9 (as claimed): a matching pod annotated vllm.profiler/ranges: "50-100"
\* gets exactly one extra variable, named RANGES, with the value 50-100.
C9_RangesNamedRANGES ==
    (pc = "responded" /\ Injected /\ RequestAnnotations = RangesOnly
       /\ Len(PodContainers(RequestPod)) >= 1) =>
        ShowsInjection(ExpectedInjection(ClaimedEnvNames))

\* C9 (amended): the injection list of a matching pod is the primary
\* variable followed by one variable per recognized annotation present,
\* named VLLM_PROFILER_<SUFFIX> (ranges -> VLLM_PROFILER_RANGES), carrying
\* the annotation's value unmodified, in table order; unrecognized
\* annotations yield nothing.
C9_AnnotationRoundTrip ==
    (pc = "responded" /\ Injected /\ Len(PodContainers(RequestPod)) >= 1) =>
        ShowsInjection(Expected)

\* C9 witness: a patch was answered for a pod annotated with debug, ranges
\* and an unrecognized key, whose first container has no env.
C9_Witness ==
    /\ pc = "responded"
    /\ Injected
    /\ Len(PodContainers(RequestPod)) >= 1
    /\ ContainerEnv(FirstContainer) = <<>>
    /\ RequestAnnotations.v[<<"vllm.profiler/", "debug">>] = A("true")
    /\ RequestAnnotations.v[<<"vllm.profiler/", "ranges">>] = Str(<<"50-100", ",", "200-300">>)
    /\ RequestAnnotations.v[<<"vllm.profiler/", "unknown">>].t # "absent"

Falsy(j) == j.t = "absent" \/ j = List(<<>>)

\* a pod without annotations, env lists, volumeMounts and volumes
BarePod ==
    /\ RequestAnnotations = NoAnnotations
    /\ Falsy(Get(Get(RequestPod, "spec", EmptyMap), "volumes", JAbsent))
    /\ \A i \in 1..Len(PodContainers(RequestPod)) :
          /\ Falsy(Get(PodContainers(RequestPod)[i], "env", JAbsent))
          /\ Falsy(Get(PodContainers(RequestPod)[i], "volumeMounts", JAbsent))

ExpectedVolume ==
    Map([name |-> A("env-injector-files"),
         configMap |-> Map([name |-> A("env-injector-files")])])

ExpectedMounts ==
    List([k \in 1..Len(FILE_KEYS) |->
            Map([name |-> A("env-injector-files"), mountPath |-> Str(FILE_KEYS[k].mountPath),
                 subPath |-> Str(FILE_KEYS[k].key), readOnly |-> JTrue])])

IsEnvOp(o) == Len(o.path) >= 4 /\ o.path[4] = "env"

\* C10: the patch of a matching bare pod of n containers is n adds creating
\* /spec/containers/i/env with the single primary variable, then the add
\* creating /spec/volumes with the auxiliary volume, then n adds creating
\* /spec/containers/i/volumeMounts with all configured files; and in every
\* patch every env operation precedes every volume and mount operation.
C10_BarePodPatch ==
    (pc = "responded" /\ Injected) =>
        /\ BarePod =>
              LET n == Len(PodContainers(RequestPod)) IN
              /\ Len(Ops) = 2 * n + 1
              /\ \A i \in 1..n :
                    /\ Ops[i] = [op |-> "add",
                                 path |-> <<"spec", "containers", Digits[i], "env">>,
                                 value |-> List(AsEnvList(<<Expected[1]>>))]
                    /\ Ops[n + 1 + i] = [op |-> "add",
                                 path |-> <<"spec", "containers", Digits[i], "volumeMounts">>,
                                 value |-> ExpectedMounts]
              /\ Ops[n + 1] = [op |-> "add", path |-> <<"spec", "volumes">>,
                               value |-> List(<<ExpectedVolume>>)]
        /\ \A p, q \in 1..Len(Ops) : (p < q /\ IsEnvOp(Ops[q])) => IsEnvOp(Ops[p])

\* C10 witness: a patch was answered for a matching bare pod of two containers.
C10_Witness ==
    /\ pc = "responded"
    /\ Injected
    /\ BarePod
    /\ Len(PodContainers(RequestPod)) = 2
    /\ Len(Ops) = 5

\* the body being handled is not JSON, or is JSON that holds nothing
BodyUnparseableOrEmpty == req.t = "bytes" \/ ~Truthy(req)

\* the (key, value) pairs the configured selector stands for
SelectorPairs ==
    IF cfg.TARGET_LABELS # <<>> THEN ValidPairs(cfg.TARGET_LABELS)
    ELSE IF cfg.TARGET_LABEL_KEY # <<>> /\ cfg.TARGET_LABEL_VALUE # <<>>
    THEN { <<cfg.TARGET_LABEL_KEY, cfg.TARGET_LABEL_VALUE>> }
    ELSE {}

\* one of the checks of the pipeline fails for the request being handled
CheckFails ==
    \/ BodyUnparseableOrEmpty
    \/ RequestKind # A("Pod")
    \/ ~InTargetNamespace
    \/ ~\E kv \in SelectorPairs : RequestLabels.v[kv[1]] = Str(kv[2])
    \/ cfg.INJECT_ENV_NAME = <<>>

\* the debug lines of the early returns
EarlyReturns ==
    { "non_pod_kind", "namespace_not_configured", "namespace_mismatch",
      "none_of_target_labels", "target_labels_invalid", "label_mismatch",
      "no_selector", "no_inject_name" }

\* C11: when a check of the pipeline fails (body unparseable or empty, kind
\* not Pod, namespace unset or different, no selector, no label match,
\* INJECT_ENV_NAME unset) the handler returns at that check with allowed =
\* true and without patchType and patch, the patch builders having
\* contributed nothing; a response carries a patch only if every check passed.
C11_EarlyTermination ==
    (pc = "responded") =>
        /\ CheckFails => (AllowNoPatch /\ Ops = <<>> /\ resp.log \in EarlyReturns)
        /\ ~AllowNoPatch => (resp.status = 200 /\ ~CheckFails /\ resp.log = "emitting_patch")

\* C11 witness: a pod of the target namespace that satisfies the selector and
\* has a container to patch was answered at the INJECT_ENV_NAME check.
C11_Witness ==
    /\ pc = "responded"
    /\ ~BodyUnparseableOrEmpty
    /\ RequestKind = A("Pod")
    /\ InTargetNamespace
    /\ \E kv \in SelectorPairs : RequestLabels.v[kv[1]] = Str(kv[2])
    /\ cfg.INJECT_ENV_NAME = <<>>
    /\ Len(PodContainers(RequestPod)) > 0
    /\ resp.log = "no_inject_name"

\* a JSON value as it is written: without the keys that are absent
RECURSIVE Plain(_)
Plain(j) ==
    CASE j.t = "map" -> Map([k \in Keys(j) |-> Plain(j.v[k])])
      [] j.t = "list" -> List([i \in 1..Len(j.v) |-> Plain(j.v[i])])
      [] OTHER -> j

\* the operation list the two builders assemble for the request being
\* handled, empty when the handler returned before them
Assembled ==
    IF Injected
    THEN build_env_patch_for_pod(RequestPod, EnvVarsToInject(cfg, RequestAnnotations))
         \o build_files_volume_patch_for_pod(RequestPod)
    ELSE <<>>

\* C12: every response echoes the request's uid (null when there is none)
\* with allowed = true; patchType = "JSONPatch" and patch are present
\* together, and exactly when the assembled operation list is non-empty; the
\* characters of patch then decode, base64 then JSON, to exactly the
\* assembled list of {op, path, value} objects, each op being add or replace.
C12_Envelope ==
    (pc = "responded") =>
        /\ resp.status = 200
        /\ Response.uid = Get(req.v.request, "uid", JNull)
        /\ Response.allowed = JTrue
        /\ (Response.patchType.t # "absent") <=> (Response.patch.t # "absent")
        /\ (Response.patch.t # "absent") <=> (Assembled # <<>>)
        /\ (Response.patch.t # "absent") =>
              /\ Response.patchType = A("JSONPatch")
              /\ LET decoded == DecodePatch(PatchString(resp)) IN
                 /\ decoded.t = "list"
                 /\ Len(decoded.v) = Len(Assembled)
                 /\ \A i \in 1..Len(Assembled) :
                       /\ decoded.v[i] = [op |-> Assembled[i].op,
                                          path |-> Assembled[i].path,
                                          value |-> Plain(Assembled[i].value)]
                       /\ decoded.v[i].op \in {"add", "replace"}

\* C12 witness: a patch was answered to a request without uid whose ranges
\* annotation holds a quote and a backslash, and its text does not fill the
\* last base64 group.
C12_Witness ==
    /\ pc = "responded"
    /\ Get(req.v.request, "uid", JNull) = JNull
    /\ Response.uid = JNull
    /\ Response.patch.t # "absent"
    /\ RequestAnnotations.v[<<"vllm.profiler/", "ranges">>] = Str(<<"50-100", "\"", "\\", "/">>)
    /\ PatchString(resp)[Len(PatchString(resp))] = "="

\* the matching review of SpecShapes with the key at position p missing
Missing(p) == req = ShapedReview(p, JAbsent)

AddOp(path, value) == [op |-> "add", path |-> path, value |-> value]

\* C13: for a matching pod a missing spec, a missing spec.containers and a
\* missing spec.volumes are read as empty and the handler answers normally:
\* without containers the only operation is the volume add (creating the
\* array when there is none, appending otherwise), without volumes the
\* volumes array is created with the single auxiliary volume.
C13_AbsentLists ==
    (pc = "responded" /\ round = 1) =>
        /\ Missing("spec") =>
              /\ resp.status = 200
              /\ Ops = << AddOp(<<"spec", "volumes">>, List(<<ExpectedVolume>>)) >>
        /\ Missing("containers") =>
              /\ resp.status = 200
              /\ Ops = << AddOp(<<"spec", "volumes", "-">>, ExpectedVolume) >>
        /\ Missing("volumes") =>
              /\ resp.status = 200
              /\ Ops = << AddOp(<<"spec", "containers", "0", "env", "-">>, AsEnvList(Expected)[1]),
                          AddOp(<<"spec", "containers", "0", "env", "-">>, AsEnvList(Expected)[2]),
                          AddOp(<<"spec", "volumes">>, List(<<ExpectedVolume>>)),
                          AddOp(<<"spec", "containers", "0", "volumeMounts", "-">>,
                                ExpectedMounts.v[1]),
                          AddOp(<<"spec", "containers", "0", "volumeMounts", "-">>,
                                ExpectedMounts.v[2]) >>

\* C13 witness: the matching pod without spec was answered with a patch.
C13_Witness ==
    /\ pc = "responded"
    /\ round = 1
    /\ Missing("spec")
    /\ resp.log = "emitting_patch"
    /\ Len(Ops) = 1

\* every answered worker holds the answer its request gets when handled alone
AnsweredAsAlone ==
    \A w \in Workers :
        workers[w].pc = "responded" => workers[w].resp = mutate(cfg, workers[w].req)

\* C14: with requests handled concurrently by several workers, in every
\* interleaving of their steps, each response is the response the same
\* request gets when handled alone under the same configuration (so equal
\* requests get equal responses); a step of the handler changes neither the
\* configuration, nor the request it handles, nor anything of another worker.
C14_RequestIndependence ==
    /\ [](AnsweredAsAlone)
    /\ [][/\ cfg' = cfg
          /\ \A w \in Workers :
                /\ workers[w].pc # "idle" /\ workers'[w].pc # "idle"
                      => workers'[w].req = workers[w].req
                /\ workers'[w] # workers[w]
                      => \A v \in Workers \ {w} : workers'[v] = workers[v]]_vars

\* C14 witness: two workers have answered different matching requests, each
\* with a patch.
C14_Witness ==
    \E v, w \in Workers :
        /\ v # w
        /\ workers[v].pc = "responded"
        /\ workers[w].pc = "responded"
        /\ workers[v].req # workers[w].req
        /\ workers[v].resp.log = "emitting_patch"
        /\ workers[w].resp.log = "emitting_patch"
        /\ workers[v].resp # workers[w].resp

\* the call numbers at which event e happened, in order
EventsAt(e) ==
    LET es == SelectSeq(wrapper.events, LAMBDA x : x.e = e) IN
    [k \in 1..Len(es) |-> es[k].at]

\* C15 (as claimed): for every configured list of ranges, once the calls
\* have gone past every configured call number, the profiler was started on
\* call start and stopped on call end of every range, in the order of the
\* list; and the original function was called once per call of the wrapper.
C15_EveryRangeProfiled ==
    /\ wrapper.original_calls = wrapper.count
    /\ (wrapper.count > MaxCallNo /\ wrapper.ranges # DefaultRanges) =>
          /\ EventsAt("start") = [k \in 1..Len(wrapper.ranges) |-> wrapper.ranges[k][1]]
          /\ EventsAt("stop") = [k \in 1..Len(wrapper.ranges) |-> wrapper.ranges[k][2]]

\* the operations of the patch on the env list of container i, in patch order
EnvOpsOf(i) == SelectSeq(Ops, LAMBDA o : OnEnvOf(o, i))

\* the expected variables whose name container c does not hold yet, in
\* injection-list order
Queued(c) == SelectSeq(Expected, LAMBDA x : FirstNamed(c, x.name) = 0)

\* C16: for each container with at least one variable queued for append the
\* builder emits, after all replace operations of that container, one add on
\* /spec/containers/i/env/- per queued variable in injection-list order if
\* the container has a non-empty env list, and otherwise a single add on
\* /spec/containers/i/env whose value is the whole queued list in order.
C16_AppendRule ==
    (pc = "responded" /\ Injected) =>
        \A i \in 1..Len(PodContainers(RequestPod)) :
            LET c == PodContainers(RequestPod)[i]
                queued == Queued(c)
                ops == EnvOpsOf(i)
                adds == SelectSeq(ops, LAMBDA o : o.op = "add")
            IN /\ queued # <<>> /\ ContainerEnv(c) # <<>> =>
                     adds = [k \in 1..Len(queued) |->
                               AddOp(<<"spec", "containers", Digits[i], "env", "-">>,
                                     AsEnvList(queued)[k])]
               /\ queued # <<>> /\ ContainerEnv(c) = <<>> =>
                     ops = << AddOp(<<"spec", "containers", Digits[i], "env">>,
                                    List(AsEnvList(queued))) >>
               /\ queued = <<>> => adds = <<>>
               /\ \A p, q \in 1..Len(ops) :
                     (p < q /\ ops[p].op = "add") => ops[q].op = "add"

\* C16 witness: a patch for a pod whose second container holds the primary
\* variable and lacks two annotation variables (one replace, then two
\* appends) and whose first container has no env list.
C16_Witness ==
    /\ pc = "responded"
    /\ Injected
    /\ Len(PodContainers(RequestPod)) = 2
    /\ ContainerEnv(PodContainers(RequestPod)[1]) = <<>>
    /\ Len(EnvOpsOf(1)) = 1
    /\ Len(Queued(PodContainers(RequestPod)[2])) = 2
    /\ Len(EnvOpsOf(2)) = 3
    /\ EnvOpsOf(2)[1].op = "replace"

\* the operations of the patch on spec.volumes, in patch order
VolumeOpsOf ==
    SelectSeq(Ops, LAMBDA o : Len(o.path) >= 2 /\ SubSeq(o.path, 1, 2) = <<"spec", "volumes">>)

\* spec.volumes of the request holds an entry with the auxiliary volume name
HasAuxVolume ==
    \E j \in 1..Len(PodVolumes(RequestPod)) :
        Get(PodVolumes(RequestPod)[j], "name", JNull) = A("env-injector-files")

\* C17: the patch holds no volume operation when spec.volumes has an entry
\* with the auxiliary volume name, and otherwise exactly one: an add on
\* /spec/volumes/- when spec.volumes is non-empty, an add on /spec/volumes
\* with a one-element array when it is empty or missing.
C17_VolumeStep ==
    (pc = "responded" /\ Injected) =>
        /\ HasAuxVolume => VolumeOpsOf = <<>>
        /\ (~HasAuxVolume /\ PodVolumes(RequestPod) # <<>>) =>
              VolumeOpsOf = << AddOp(<<"spec", "volumes", "-">>, ExpectedVolume) >>
        /\ PodVolumes(RequestPod) = <<>> =>
              VolumeOpsOf = << AddOp(<<"spec", "volumes">>, List(<<ExpectedVolume>>)) >>

\* C17 witness: a patch for a pod that already has the auxiliary volume
\* after another volume, with operations for its container only.
C17_Witness ==
    /\ pc = "responded"
    /\ Injected
    /\ round = 1
    /\ Len(PodVolumes(RequestPod)) = 2
    /\ Get(PodVolumes(RequestPod)[2], "name", JNull) = A("env-injector-files")
    /\ Get(PodVolumes(RequestPod)[1], "name", JNull) = A("data")
    /\ Ops # <<>>
    /\ VolumeOpsOf = <<>>

\* the operations of the patch on the volumeMounts of container i
MountOpsOf(i) ==
    SelectSeq(Ops, LAMBDA o : /\ Len(o.path) >= 4
                              /\ SubSeq(o.path, 1, 4) =
                                    <<"spec", "containers", Digits[i], "volumeMounts">>)

\* the mount records of the configured files that have no mount at their
\* mountPath in container c, in configured order
MissingMounts(c) ==
    SelectSeq(ExpectedMounts.v,
              LAMBDA m : ~\E j \in 1..Len(ContainerMounts(c)) :
                              Get(ContainerMounts(c)[j], "mountPath", JNull) = m.v.mountPath)

\* C18: for every container the patch mounts exactly the configured files
\* at whose mountPath the container has no volumeMount yet (of whatever
\* volume), as {name = auxiliary volume, mountPath, subPath = key, readOnly
\* = true}, in configured order: one add on .../volumeMounts/- each when the
\* container has mounts, a single add creating .../volumeMounts with all of
\* them otherwise.
C18_MountStep ==
    (pc = "responded" /\ Injected) =>
        \A i \in 1..Len(PodContainers(RequestPod)) :
            LET c == PodContainers(RequestPod)[i]
                missing == MissingMounts(c)
                path == <<"spec", "containers", Digits[i], "volumeMounts">>
            IN MountOpsOf(i) =
                  IF missing = <<>> THEN <<>>
                  ELSE IF ContainerMounts(c) # <<>>
                  THEN [k \in 1..Len(missing) |-> AddOp(path \o <<"-">>, missing[k])]
                  ELSE << AddOp(path, List(missing)) >>

\* C18 witness: a patch for a pod whose container mounts another volume at
\* the first configured mountPath: only the second file is appended.
C18_Witness ==
    /\ pc = "responded"
    /\ Injected
    /\ round = 1
    /\ Len(PodContainers(RequestPod)) >= 1
    /\ ContainerMounts(PodContainers(RequestPod)[1]) =
          << Mount(<<"data">>, <<"/home/vllm/profiler/sitecustomize.py">>, JAbsent, JAbsent) >>
    /\ MountOpsOf(1) = << AddOp(<<"spec", "containers", "0", "volumeMounts", "-">>,
                                ExpectedMounts.v[2]) >>

\* "=" occurs in entry e
HasSeparator(e) == \E i \in 1..Len(e) : e[i] = "="

\* the pair a label entry with "=" stands for: split at the first "=", key
\* and value stripped
PairOf(e) ==
    LET t == Strip(e)
        i == CHOOSE k \in 1..Len(t) : t[k] = "=" /\ \A j \in 1..(k - 1) : t[j] # "="
    IN [key |-> Strip(SubSeq(t, 1, i - 1)), value |-> Strip(SubSeq(t, i + 1, Len(t)))]

\* a run of digits, possibly with blanks around it
IsNumber(t) == Strip(t) # <<>> /\ \A i \in 1..Len(Strip(t)) : IsIndexToken(Strip(t)[i])

\* entry e is a valid "start-end": exactly one "-", a number on each side
ValidRange(e) ==
    /\ Cardinality({i \in 1..Len(e) : e[i] = "-"}) = 1
    /\ LET i == CHOOSE k \in 1..Len(e) : e[k] = "-" IN
       IsNumber(SubSeq(e, 1, i - 1)) /\ IsNumber(SubSeq(e, i + 1, Len(e)))

RangeOf(e) ==
    LET i == CHOOSE k \in 1..Len(e) : e[k] = "-" IN
    << Decimal(Strip(SubSeq(e, 1, i - 1))), Decimal(Strip(SubSeq(e, i + 1, Len(e)))) >>

\* the entries of es that satisfy Keep, in order
Selected(es, Keep(_)) == SelectSeq(es, Keep)

\* C19: no malformed entry aborts parsing: parse_target_labels returns the
\* pairs of the entries that hold "=", in order, split at the first "=" and
\* stripped, and warns once for every other entry; _parse_ranges returns the
\* valid "start-end" entries in order and warns once for every other entry
\* (no "-", bounds that are no integers, more than one "-").
C19_MalformedSkipped ==
    parsed.pc = "done" =>
        LET es == parsed.entries
            pairs == Selected(es, HasSeparator)
            nopairs == Selected(es, LAMBDA e : ~HasSeparator(e))
            valid == Selected(es, ValidRange)
            invalid == Selected(es, LAMBDA e : ~ValidRange(e))
        IN /\ parsed.labels = [i \in 1..Len(pairs) |-> PairOf(pairs[i])]
           /\ parsed.label_warnings = [i \in 1..Len(nopairs) |-> Strip(nopairs[i])]
           /\ parsed.ranges = [i \in 1..Len(valid) |-> RangeOf(valid[i])]
           /\ parsed.range_warnings = [i \in 1..Len(invalid) |-> Strip(invalid[i])]

\* the prof.start() and prof.stop() calls so far, in order
StartsAndStops == SelectSeq(wrapper.events, LAMBDA x : x.e \in {"start", "stop"})

\* the current range can no longer start: the profiler is idle and the call
\* number of its start is not ahead of the calls counted
Blocked ==
    /\ ~wrapper.profiling_active
    /\ wrapper.current_range_idx < Len(wrapper.ranges)
    /\ wrapper.ranges[wrapper.current_range_idx + 1][1] <= wrapper.count

\* what holds of the wrapper after any number of calls
WrapperInvariant ==
    /\ \A k \in 1..Len(StartsAndStops) :
          StartsAndStops[k].e = (IF k % 2 = 1 THEN "start" ELSE "stop")
    /\ wrapper.profiling_active <=> (Len(StartsAndStops) % 2 = 1)
    /\ wrapper.current_range_idx \in 0..Len(wrapper.ranges)
    /\ wrapper.profiling_active => wrapper.current_range_idx < Len(wrapper.ranges)
    /\ ~wrapper.raised

\* what holds of every call of the wrapper
WrapperStep ==
    /\ wrapper'.current_range_idx >= wrapper.current_range_idx
    /\ Blocked => /\ wrapper'.events = wrapper.events
                  /\ wrapper'.current_range_idx = wrapper.current_range_idx
                  /\ Blocked'

====
